---- MODULE Spec2Model ----
(***************************************************************************)
(* The RAG query service of search/api.py and search/query/pipeline.py:    *)
(* the in-memory job registry (_jobs, guarded by _jobs_lock), the three    *)
(* HTTP handlers (POST /query, GET /stream/{job_id}, POST /query/sync) run *)
(* by concurrent request handlers, and the query pipeline they call.       *)
(***************************************************************************)
EXTENDS Integers, Sequences, FiniteSets, TLC

\* ---------------------------------------------------------------- bounds

\* Concurrent request handlers (threads / event-loop tasks).
NumHandlers == 2
\* POST /query calls over a run.
MaxSubmits == 2
\* GET /stream/{job_id} calls over a run.
MaxStreams == 4
\* POST /query/sync calls over a run.
MaxSyncs == 2
\* Advances of the wall clock over a run.
MaxTicks == 1
\* Tokens one generation call may produce.
MaxTokens == 2
\* Worker threads of the backend that call learn_from_trade.
NumCallers == 2
\* learn_from_trade calls over a run.
MaxLearns == 2
\* POST /api/transactions calls over a run.
MaxBatches == 2
\* Items in the body of one POST /api/transactions.
MaxItems == 2
\* reload_sections calls during one build_system_prompt call.
MaxReloads == 2

\* ------------------------------------------------------- program constants

\* api.py: _JOB_TTL_SECS = 300
_JOB_TTL_SECS == 300

Handlers == 1..NumHandlers

Callers == 1..NumCallers

\* Values uuid.uuid4().hex[:12] can take: 48 random bits, drawn afresh by every
\* call, with nothing that excludes a value drawn before.
JobIds == {"0a1b2c3d4e5f", "6a7b8c9d0e1f"}

\* Amounts by which time.time() advances between two steps.
TickSteps == {_JOB_TTL_SECS, _JOB_TTL_SECS + 1}

\* Python's None, for values that are records otherwise.
None == [py_none |-> TRUE]

\* An Optional[T] field is the empty set (None) or a singleton {value}.
Some(v) == {v}
TheValue(opt) == CHOOSE v \in opt : TRUE

\* ------------------------------------------------------------- schemas.py

OptionalOverrideFields == {"difficulty", "sections", "extra_rules", "extra_instructions"}

\* PromptOverrides: every field optional (default None) but include_examples
\* (default True).
PromptOverrides(difficulty, sections, include_examples, extra_rules, extra_instructions) ==
    [difficulty |-> difficulty, sections |-> sections,
     include_examples |-> include_examples,
     extra_rules |-> extra_rules, extra_instructions |-> extra_instructions]

\* QueryRequest: question, trade_analysis (default "none"), prompt_overrides
\* (default None).
QueryRequest(question, trade_analysis, prompt_overrides) ==
    [question |-> question, trade_analysis |-> trade_analysis,
     prompt_overrides |-> prompt_overrides]

\* The request bodies the clients send.
Requests ==
    { QueryRequest("What is RSI?", "none", {}),
      QueryRequest("What are CALL options?", "CALL option trade",
                   Some(PromptOverrides(Some("beginner"), {}, FALSE,
                                        Some(<<"Cite sources">>), {}))) }

\* ----------------------------------------------------------------- state

VARIABLES
    _jobs,          \* api._jobs: job_id -> {request, created_at, consumed}
    _jobs_lock,     \* api._jobs_lock: 0 when free, else the handler holding it
    clock,          \* what time.time() returns now
    ticks,          \* advances of the clock so far
    submits,        \* POST /query calls started so far
    streams,        \* GET /stream/{job_id} calls started so far
    syncs,          \* POST /query/sync calls started so far
    index_on_disk,  \* whether settings.index_path / "index.faiss" exists
    vs_cached,      \* whether lru_cache holds _get_vectorstore's result
    pc,             \* each handler's position in its endpoint function
    h_req,          \* each handler's `req`
    h_job_id,       \* each handler's `job_id`
    h_now,          \* each handler's `now` local of _cleanup_expired
    h_call,         \* the arguments each handler called the query pipeline with
    h_docs,         \* each handler's `docs`: what its pipeline call retrieved
    h_tokens,       \* the tokens chain.astream has produced for each handler
    h_events,       \* the SSE events each handler's _event_generator has yielded
    h_error,        \* the exception that left each handler's pipeline call, or ""
    response,       \* each handler's HTTP response
    issued,         \* history: the (job_id, request) pairs _create_job returned
    consumes,       \* history: the (job_id, request) pairs _get_job returned
    rejections,     \* history: why, and how, GET /stream calls were rejected
    PROMPT_SECTIONS, \* prompt.PROMPT_SECTIONS: the section library loaded from prompt.json
    p_args,         \* the keyword arguments of the last build_system_prompt call
    p_result,       \* what the last build_system_prompt call returned
    p_prev,         \* the arguments and the result of the call before it
    f_docs,         \* the `docs` argument of the last _format_docs call
    f_context,      \* what the last _format_docs call returned
    html_files,     \* the files sorted(html_root.rglob("*.htm*")) finds
    settings,       \* search.config.settings: chunk_size and chunk_overlap
    i_pc,           \* the ingestion run's position in run()
    i_file,         \* load_html_documents' position in the sorted paths
    i_docs,         \* run()'s `docs`
    i_chunks,       \* run()'s `chunks`
    i_error,        \* the exception that ended the ingestion run, or ""
    persisted,      \* settings.index_path on disk: the saved index and documents.json
    vs_loads,       \* FAISS.load_local calls this process has made
    vs_store,       \* the store object lru_cache holds for _get_vectorstore, 0 for none
    learns,         \* learn_from_trade calls started so far
    l_pc,           \* each worker thread's position in learn_from_trade
    l_args,         \* the arguments of each worker thread's learn_from_trade call
    l_call,         \* the arguments each worker thread called answer_question with
    l_docs,         \* each worker thread's `docs` in answer_question
    l_store,        \* each worker thread's `vs`: the store object it was given
    l_result,       \* what each worker thread's learn_from_trade returned or raised
    transactions,   \* the backend's `transactions` table: the committed rows
    batches,        \* POST /api/transactions calls started so far
    t_pc,           \* the position of the request in sync_transactions
    t_items,        \* sync_transactions' `items`
    t_i,            \* the index in `items` of the loop's next item
    t_new,          \* the session's pending objects: rows added and not flushed
    t_loaded,       \* the session's identity map: the persistent rows it has read
    t_ids,          \* sync_transactions' `ids`
    t_response,     \* the response of POST /api/transactions
    b_pc,           \* the position of a thread in build_system_prompt
    b_args,         \* that call's keyword arguments
    b_s,            \* that call's `s`: the dict it took from PROMPT_SECTIONS
    b_i,            \* the block that call comes to next
    b_parts,        \* that call's `parts`
    b_result,       \* what that call returned
    b_start,        \* history: PROMPT_SECTIONS when that call began
    b_reloads       \* history: the reloads made while that call was under way

composer_vars == <<PROMPT_SECTIONS, p_args, p_result, p_prev>>
format_vars == <<f_docs, f_context>>
ingest_vars == <<html_files, settings, i_pc, i_file, i_docs, i_chunks, i_error,
                 persisted>>

\* The loads of the vector index, and the object the cache holds.
cache_vars == <<vs_loads, vs_store>>

\* The worker threads that call services.rag.learn_from_trade.
learn_vars == <<learns, l_pc, l_args, l_call, l_docs, l_store, l_result>>

\* The callers of the library outside the query service's endpoints.
\* The backend's store of transactions and its sync request.
db_vars == <<transactions, batches, t_pc, t_items, t_i, t_new, t_loaded, t_ids,
             t_response>>

\* A thread's build_system_prompt call, block by block.
build_vars == <<b_pc, b_args, b_s, b_i, b_parts, b_result, b_start, b_reloads>>

caller_vars == <<learn_vars, db_vars, build_vars>>

\* What the query service's endpoints leave alone.
offline_vars == <<composer_vars, format_vars, ingest_vars>>

vars == <<_jobs, _jobs_lock, clock, ticks, submits, streams, syncs, index_on_disk,
          vs_cached, pc, h_req, h_job_id, h_now, h_call, h_docs, h_tokens, h_events,
          h_error, response,
          issued, consumes, rejections, offline_vars, cache_vars, caller_vars>>

time_vars == <<clock, ticks>>
count_vars == <<submits, streams, syncs>>
hist_vars == <<issued, consumes, rejections>>

\* What a step of the job registry leaves alone.
pipeline_vars == <<index_on_disk, vs_cached, cache_vars, caller_vars, h_call, h_docs, h_tokens, h_events,
                   h_error>>

NoResponse == [status |-> 0]
NoCall == [called |-> FALSE]
NoDocs == [stage |-> "unset"]

\* The query service when the process has started.
InitService ==
    /\ _jobs = [k \in {} |-> None]
    /\ _jobs_lock = 0
    /\ clock = 0
    /\ ticks = 0
    /\ submits = 0
    /\ streams = 0
    /\ syncs = 0
    /\ index_on_disk \in BOOLEAN
    /\ vs_cached = FALSE
    /\ pc = [h \in Handlers |-> "idle"]
    /\ h_req = [h \in Handlers |-> None]
    /\ h_job_id = [h \in Handlers |-> ""]
    /\ h_now = [h \in Handlers |-> 0]
    /\ h_call = [h \in Handlers |-> NoCall]
    /\ h_docs = [h \in Handlers |-> NoDocs]
    /\ h_tokens = [h \in Handlers |-> <<>>]
    /\ h_events = [h \in Handlers |-> <<>>]
    /\ h_error = [h \in Handlers |-> ""]
    /\ response = [h \in Handlers |-> NoResponse]
    /\ issued = <<>>
    /\ consumes = <<>>
    /\ rejections = {}
    /\ vs_loads = 0
    /\ vs_store = 0
    /\ learns = 0
    /\ l_pc = [c \in Callers |-> "idle"]
    /\ l_args = [c \in Callers |-> None]
    /\ l_call = [c \in Callers |-> NoCall]
    /\ l_docs = [c \in Callers |-> NoDocs]
    /\ l_store = [c \in Callers |-> 0]
    /\ l_result = [c \in Callers |-> None]
    /\ transactions = <<>>
    /\ batches = 0
    /\ t_pc = "idle"
    /\ t_items = <<>>
    /\ t_i = 1
    /\ t_new = <<>>
    /\ t_loaded = [k \in {} |-> None]
    /\ t_ids = <<>>
    /\ t_response = NoResponse
    /\ b_pc = "idle"
    /\ b_args = None
    /\ b_s = None
    /\ b_i = 1
    /\ b_parts = <<>>
    /\ b_result = None
    /\ b_start = None
    /\ b_reloads = 0

\* --------------------------------------------------------- dict operations

\* d[k] = v
DictSet(d, k, v) == [x \in (DOMAIN d) \cup {k} |-> IF x = k THEN v ELSE d[x]]

\* for k in keys: del d[k]
DictDel(d, keys) == [x \in (DOMAIN d) \ keys |-> d[x]]

\* ------------------------------------------------------- request dispatch

\* A handler that is not running an endpoint function: it has never run one, or
\* the one it ran has answered (its locals are kept until its next request).
Idle(h) == pc[h] \in {"idle", "submit_done", "stream_done", "sync_done"}

\* The server hands a request to the first handler that is free.
Accepts(h) == Idle(h) /\ \A g \in Handlers : g < h => ~Idle(g)

\* The locals of handler h at the start of an endpoint function.
FreshLocals(h) ==
    /\ h_call' = [h_call EXCEPT ![h] = NoCall]
    /\ h_docs' = [h_docs EXCEPT ![h] = NoDocs]
    /\ h_tokens' = [h_tokens EXCEPT ![h] = <<>>]
    /\ h_events' = [h_events EXCEPT ![h] = <<>>]
    /\ h_error' = [h_error EXCEPT ![h] = ""]
    /\ response' = [response EXCEPT ![h] = NoResponse]

\* ------------------------------------------------------------ the clock

\* Time passes between any two steps of the handlers.
Tick ==
    /\ ticks < MaxTicks
    /\ \E d \in TickSteps : clock' = clock + d
    /\ ticks' = ticks + 1
    /\ UNCHANGED <<_jobs, _jobs_lock, pc, h_req, h_job_id, h_now, response>>
    /\ UNCHANGED <<count_vars, hist_vars, pipeline_vars>>
    /\ UNCHANGED offline_vars

\* ------------------------------------------------- api.py: the job registry

\* A variant of the test that takes a job of exactly the TTL's age as expired.
Expired_AtTtl(v, now) == now - v.created_at >= _JOB_TTL_SECS

\* _cleanup_expired's test: now - v["created_at"] > _JOB_TTL_SECS
Expired(v, now) == now - v.created_at > _JOB_TTL_SECS

\* A variant of the comprehension that spares the jobs already consumed.
ExpiredKeys_Unconsumed(jobs, now) ==
    {k \in DOMAIN jobs : Expired(jobs[k], now) /\ ~jobs[k].consumed}

\* _cleanup_expired's list comprehension: the keys to delete.
ExpiredKeys(jobs, now) == {k \in DOMAIN jobs : Expired(jobs[k], now)}

\* The entry _create_job stores.
NewJob(req, created_at) ==
    [request |-> req, created_at |-> created_at, consumed |-> FALSE]

\* _create_job's store: _jobs[job_id] = {...}, with no test of job_id.
CreateJobStore(jobs, job_id, req, created_at) ==
    DictSet(jobs, job_id, NewJob(req, created_at))

\* _get_job's return value: the job, marked consumed, or None.
GetJobResult(jobs, job_id) ==
    IF job_id \notin DOMAIN jobs THEN None
    ELSE IF jobs[job_id].consumed THEN None
    ELSE [jobs[job_id] EXCEPT !.consumed = TRUE]

\* A variant of _get_job that takes the job out of the registry.
GetJobStore_Pop(jobs, job_id) ==
    IF GetJobResult(jobs, job_id) = None THEN jobs
    ELSE DictDel(jobs, {job_id})

\* _get_job's effect on _jobs: job["consumed"] = True on the path that returns it.
GetJobStore(jobs, job_id) ==
    IF GetJobResult(jobs, job_id) = None THEN jobs
    ELSE [jobs EXCEPT ![job_id].consumed = TRUE]

\* _prompt_kwargs: {} without overrides, else model_dump(exclude_none=True).
PromptKwargs(req) ==
    IF req.prompt_overrides = {} THEN [k \in {} |-> None]
    ELSE LET o == TheValue(req.prompt_overrides)
             keys == {f \in OptionalOverrideFields : o[f] # {}} \cup {"include_examples"}
         IN  [k \in keys |-> IF k = "include_examples" THEN o.include_examples
                             ELSE TheValue(o[k])]

\* The binding of answer_question(_stream)'s parameters: the two positional
\* arguments, the keyword arguments given, and the defaults for the rest.
PipelineCall(question, trade_analysis, kwargs) ==
    [called |-> TRUE,
     question |-> question,
     trade_analysis |-> trade_analysis,
     difficulty |-> IF "difficulty" \in DOMAIN kwargs THEN Some(kwargs["difficulty"]) ELSE {},
     sections |-> IF "sections" \in DOMAIN kwargs THEN Some(kwargs["sections"]) ELSE {},
     include_examples |-> IF "include_examples" \in DOMAIN kwargs
                          THEN kwargs["include_examples"] ELSE TRUE,
     extra_rules |-> IF "extra_rules" \in DOMAIN kwargs THEN Some(kwargs["extra_rules"]) ELSE {},
     extra_instructions |-> IF "extra_instructions" \in DOMAIN kwargs
                            THEN Some(kwargs["extra_instructions"]) ELSE {}]

\* A variant of the refusal that tells a client the job_id is unknown.
GoneResponse_NotFound == [status |-> 404, detail |-> "Stream not found."]

\* The 410 response of stream().
GoneResponse ==
    [status |-> 410,
     detail |-> "Stream not found or already consumed. Submit a new /query."]

\* stream()'s answer when _get_job returned `job`.
StreamResponse(job) ==
    IF job = None THEN GoneResponse
    ELSE [status |-> 200, media_type |-> "text/event-stream"]

\* Why a GET /stream/{job_id} that _get_job refuses is refused (history only).
RejectReason(jobs, job_id) ==
    IF job_id \in DOMAIN jobs THEN "consumed"
    ELSE IF \E i \in 1..Len(issued) : issued[i].job_id = job_id THEN "expired"
    ELSE "never_issued"

\* str(request.base_url).rstrip("/") of the requests the clients send.
BaseUrl == "http://testserver"

\* A variant of the block's exit that keeps the lock.
WithExit_Held(h) == h

\* The lock when handler h leaves a `with _jobs_lock:` block, by its end or by
\* a return inside it: released (0).
WithExit(h) == 0

\* A variant of submit_query that goes straight to _create_job.
SubmitQueryFirst_NoSweep == "create_acquire"

\* Where submit_query's first statement, _cleanup_expired(), takes the handler:
\* to the sweep's `with` block; _create_job(req) comes after it.
SubmitQueryFirst == "cleanup_acquire"

\* POST /query, to the first statement of _cleanup_expired: now = time.time().
SubmitQuery(h) ==
    /\ Accepts(h)
    /\ submits < MaxSubmits
    /\ \E req \in Requests : h_req' = [h_req EXCEPT ![h] = req]
    /\ FreshLocals(h)
    /\ h_job_id' = [h_job_id EXCEPT ![h] = ""]
    /\ h_now' = [h_now EXCEPT ![h] = clock]
    /\ submits' = submits + 1
    /\ pc' = [pc EXCEPT ![h] = SubmitQueryFirst]
    /\ UNCHANGED <<_jobs, _jobs_lock, streams, syncs, index_on_disk, vs_cached, cache_vars, caller_vars>>
    /\ UNCHANGED <<time_vars, hist_vars>>
    /\ UNCHANGED offline_vars

\* _cleanup_expired: with _jobs_lock (enter).
CleanupAcquire(h) ==
    /\ pc[h] = "cleanup_acquire"
    /\ _jobs_lock = 0
    /\ _jobs_lock' = h
    /\ pc' = [pc EXCEPT ![h] = "cleanup_locked"]
    /\ UNCHANGED <<_jobs, h_req, h_job_id, h_now, response>>
    /\ UNCHANGED <<time_vars, count_vars, hist_vars, pipeline_vars>>
    /\ UNCHANGED offline_vars

\* _cleanup_expired: the sweep, and the lock's release.
CleanupSweep(h) ==
    /\ pc[h] = "cleanup_locked"
    /\ _jobs_lock = h
    /\ _jobs' = DictDel(_jobs, ExpiredKeys(_jobs, h_now[h]))
    /\ _jobs_lock' = WithExit(h)
    /\ pc' = [pc EXCEPT ![h] = "create_acquire"]
    /\ UNCHANGED <<h_req, h_job_id, h_now, response>>
    /\ UNCHANGED <<time_vars, count_vars, hist_vars, pipeline_vars>>
    /\ UNCHANGED offline_vars

\* _create_job: job_id = uuid.uuid4().hex[:12]; with _jobs_lock (enter).
CreateJobAcquire(h) ==
    /\ pc[h] = "create_acquire"
    /\ _jobs_lock = 0
    /\ \E job_id \in JobIds : h_job_id' = [h_job_id EXCEPT ![h] = job_id]
    /\ _jobs_lock' = h
    /\ pc' = [pc EXCEPT ![h] = "create_locked"]
    /\ UNCHANGED <<_jobs, h_req, h_now, response>>
    /\ UNCHANGED <<time_vars, count_vars, hist_vars, pipeline_vars>>
    /\ UNCHANGED offline_vars

\* _create_job: the insert and the lock's release; submit_query returns
\* QuerySubmitResponse(job_id, stream_url).
CreateJobInsert(h) ==
    /\ pc[h] = "create_locked"
    /\ _jobs_lock = h
    /\ _jobs' = CreateJobStore(_jobs, h_job_id[h], h_req[h], clock)
    /\ _jobs_lock' = WithExit(h)
    /\ issued' = Append(issued, [job_id |-> h_job_id[h], request |-> h_req[h]])
    /\ response' = [response EXCEPT ![h] =
                       [status |-> 200, job_id |-> h_job_id[h],
                        stream_url |-> BaseUrl \o "/stream/" \o h_job_id[h]]]
    /\ pc' = [pc EXCEPT ![h] = "submit_done"]
    /\ h_req' = [h_req EXCEPT ![h] = None]
    /\ h_job_id' = [h_job_id EXCEPT ![h] = ""]
    /\ h_now' = [h_now EXCEPT ![h] = 0]
    /\ UNCHANGED <<consumes, rejections>>
    /\ UNCHANGED <<time_vars, count_vars, pipeline_vars>>
    /\ UNCHANGED offline_vars

\* GET /stream/{job_id}: job = _get_job(job_id), the whole of its
\* `with _jobs_lock` block (lookup, mark consumed, release); then stream() either
\* raises HTTPException(410) or takes req and kwargs and returns the
\* StreamingResponse whose generator calls answer_question_stream.
Stream(h) ==
    /\ Accepts(h)
    /\ streams < MaxStreams
    /\ _jobs_lock = 0
    /\ streams' = streams + 1
    /\ h_now' = [h_now EXCEPT ![h] = 0]
    /\ h_docs' = [h_docs EXCEPT ![h] = NoDocs]
    /\ h_tokens' = [h_tokens EXCEPT ![h] = <<>>]
    /\ h_events' = [h_events EXCEPT ![h] = <<>>]
    /\ h_error' = [h_error EXCEPT ![h] = ""]
    /\ \E job_id \in JobIds :
        LET job == GetJobResult(_jobs, job_id)
        IN  /\ _jobs' = GetJobStore(_jobs, job_id)
            /\ response' = [response EXCEPT ![h] = StreamResponse(job)]
            /\ IF job = None
               THEN /\ rejections' = rejections \cup
                           {[reason |-> RejectReason(_jobs, job_id),
                             response |-> StreamResponse(job)]}
                    /\ pc' = [pc EXCEPT ![h] = "stream_done"]
                    /\ h_job_id' = [h_job_id EXCEPT ![h] = ""]
                    /\ h_req' = [h_req EXCEPT ![h] = None]
                    /\ h_call' = [h_call EXCEPT ![h] = NoCall]
                    /\ UNCHANGED consumes
               ELSE /\ h_job_id' = [h_job_id EXCEPT ![h] = job_id]
                    /\ h_req' = [h_req EXCEPT ![h] = job.request]
                    /\ h_call' = [h_call EXCEPT ![h] =
                           PipelineCall(job.request.question,
                                        job.request.trade_analysis,
                                        PromptKwargs(job.request))]
                    /\ consumes' = Append(consumes,
                           [job_id |-> job_id, request |-> job.request,
                            n_issued |-> Len(issued)])
                    /\ pc' = [pc EXCEPT ![h] = "s_start"]
                    /\ UNCHANGED rejections
    /\ _jobs_lock' = WithExit(h)
    /\ UNCHANGED <<submits, syncs, index_on_disk, vs_cached, cache_vars, caller_vars, issued>>
    /\ UNCHANGED time_vars
    /\ UNCHANGED offline_vars

\* ------------------------------------------------- schemas.py: RagAnswer

Difficulties == {"beginner", "intermediate", "advanced", "unknown"}
Confidences == {"high", "medium", "low"}

\* RagAnswer's fields in declaration order, which is model_dump's key order.
RagAnswerFields ==
    <<"difficulty", "lesson_title", "answer", "key_takeaway", "reflection_question",
      "deep_dive_links", "next_topics", "confidence", "sources">>

\* The fields declared with Field(default_factory=list).
RagAnswerDefaulted == {"deep_dive_links", "next_topics", "sources"}

\* The fields declared with Field(description=...) alone: no default, so required.
RagAnswerRequired ==
    {RagAnswerFields[i] : i \in 1..Len(RagAnswerFields)} \ RagAnswerDefaulted

\* pydantic's validation of RagAnswer(**kw).
RagAnswerValid(kw) ==
    /\ RagAnswerRequired \subseteq DOMAIN kw
    /\ kw["difficulty"] \in Difficulties
    /\ kw["confidence"] \in Confidences

\* RagAnswer(**kw).model_dump(): the dict of all fields, or ValidationError.
RagAnswer(kw) ==
    IF RagAnswerValid(kw)
    THEN [ok |-> TRUE,
          value |-> [f \in RagAnswerRequired \cup RagAnswerDefaulted |->
                        IF f \in DOMAIN kw THEN kw[f] ELSE <<>>]]
    ELSE [ok |-> FALSE, error |-> "ValidationError"]

\* ------------------------------------------- query/pipeline.py: the pipeline

\* _default_answer()
DefaultAnswer ==
    RagAnswer([difficulty |-> "unknown", answer |-> "INSUFFICIENT_CONTEXT",
               confidence |-> "low", sources |-> <<>>])

RECURSIVE JsonList(_)
\* json.dumps of a list of strings, without its brackets.
JsonList(xs) ==
    IF xs = <<>> THEN ""
    ELSE IF Len(xs) = 1 THEN "\"" \o xs[1] \o "\""
    ELSE "\"" \o xs[1] \o "\", " \o JsonList(Tail(xs))

\* json.dumps of one value of a dumped RagAnswer.
JsonValue(field, v) ==
    IF field \in RagAnswerDefaulted THEN "[" \o JsonList(v) \o "]"
    ELSE "\"" \o v \o "\""

RECURSIVE JsonMembers(_, _)
\* json.dumps of the members of a dict, in `keys` order.
JsonMembers(d, keys) ==
    IF keys = <<>> THEN ""
    ELSE "\"" \o keys[1] \o "\": " \o JsonValue(keys[1], d[keys[1]])
         \o (IF Len(keys) = 1 THEN "" ELSE ", " \o JsonMembers(d, Tail(keys)))

\* json.dumps(d) of a dict whose keys, in insertion order, are `keys`.
JsonDumpsKeys(d, keys) == "{" \o JsonMembers(d, keys) \o "}"

\* json.dumps(d) of a dumped RagAnswer.
JsonDumps(d) == JsonDumpsKeys(d, RagAnswerFields)

\* The chunk lists retriever.invoke(question) may return.
RetrievedDocs == {<<>>, <<"RSI measures momentum">>}

\* The tokens chain.astream may produce (chunk.content): any text of the model's.
Tokens == {"RSI", "[DONE]"}

\* What the model may answer a chain.invoke with, as the parser reads it.
LlmAnswers ==
    { [difficulty |-> "beginner", lesson_title |-> "RSI", answer |-> "RSI is ...",
       key_takeaway |-> "k", reflection_question |-> "r", confidence |-> "high",
       sources |-> <<"rsi.html">>],
      [difficulty |-> "advanced", lesson_title |-> "Options", answer |-> "A CALL ...",
       key_takeaway |-> "k", reflection_question |-> "r", confidence |-> "medium",
       next_topics |-> <<"PUT options">>, sources |-> <<"options.html", "calls.html">>],
      [difficulty |-> "unknown", lesson_title |-> "", answer |-> "INSUFFICIENT_CONTEXT",
       key_takeaway |-> "", reflection_question |-> "", confidence |-> "low"],
      [difficulty |-> "expert", lesson_title |-> "RSI", answer |-> "RSI is ...",
       key_takeaway |-> "k", reflection_question |-> "r", confidence |-> "high"],
      [difficulty |-> "beginner", answer |-> "RSI is ...", confidence |-> "high",
       sources |-> <<>>] }

\* What a retriever.invoke(question) may do: fail (the embedding call), or
\* return a list of chunks.
Retrievals ==
    {[fails |-> TRUE]} \cup {[fails |-> FALSE, docs |-> d] : d \in RetrievedDocs}

\* What a chain.invoke may do: fail (the generation call), or return text that
\* the parser reads as these fields.
Generations ==
    {[fails |-> TRUE]} \cup {[fails |-> FALSE, kw |-> kw] : kw \in LlmAnswers}

UpstreamError == [ok |-> FALSE, error |-> "UpstreamError"]

\* A variant of the frame that sends the token bare.
SseEvent_Bare(token) == token

\* _event_generator's frame around a token.
SseEvent(token) == "data: " \o token \o "\n\n"

\* _event_generator's last yield.
DoneEvent == "data: [DONE]\n\n"

\* _get_vectorstore under lru_cache: a cached store, or a load when index.faiss
\* exists, else FileNotFoundError.
VectorstoreAvailable(cached, on_disk) == cached \/ on_disk

\* The FAISS.load_local calls made once a _get_vectorstore call has ended: the
\* function's body runs on a miss, and loads when index.faiss exists.
LoadsAfter(loads, cached, on_disk) ==
    IF ~cached /\ on_disk THEN loads + 1 ELSE loads

\* A variant of the cache that keeps the failure too (-1) when index.faiss is
\* missing.
CachedStoreAfter_FailureKept(store, loads, on_disk) ==
    IF store # 0 THEN store
    ELSE IF on_disk THEN loads + 1
    ELSE 0 - 1

\* What lru_cache holds once a _get_vectorstore call has ended: the entry it
\* held, else the store just loaded (the load's number names the object); an
\* exception stores nothing.
CachedStoreAfter(store, loads, on_disk) ==
    IF store # 0 THEN store
    ELSE IF on_disk THEN loads + 1
    ELSE 0

\* answer_question, given what its collaborators do: the dict it returns
\* (ok, value) or the exception that leaves it (error).
AnswerQuestion(available, retrieval, generation) ==
    IF ~available THEN DefaultAnswer
    ELSE IF retrieval.fails THEN UpstreamError
    ELSE IF retrieval.docs = <<>> THEN DefaultAnswer
    ELSE IF generation.fails THEN UpstreamError
    ELSE LET result == RagAnswer(generation.kw)
         IN  IF result.ok THEN result
             ELSE [ok |-> FALSE, error |-> "OutputParserException"]

\* The `docs` a pipeline call ends its retrieval with.
DocsAfter(available, retrieval) ==
    IF ~available THEN [stage |-> "no_index"]
    ELSE IF retrieval.fails THEN [stage |-> "retrieval_failed"]
    ELSE [stage |-> "retrieved", docs |-> retrieval.docs]

\* What a step of a streaming pipeline call leaves alone.
registry_vars == <<_jobs, _jobs_lock, time_vars, count_vars, hist_vars,
                   index_on_disk, h_now, response>>

\* The generator's locals, which go away when it ends.
StreamLocalsEnd(h) ==
    /\ h_req' = [h_req EXCEPT ![h] = None]
    /\ h_job_id' = [h_job_id EXCEPT ![h] = ""]
    /\ h_call' = [h_call EXCEPT ![h] = NoCall]

\* answer_question_stream's short circuit: yield json.dumps(_default_answer());
\* return. _event_generator frames the token and, the stream over, yields [DONE].
StreamDefault(h) ==
    LET d == DefaultAnswer
    IN  IF d.ok
        THEN /\ h_tokens' = [h_tokens EXCEPT ![h] = Append(@, JsonDumps(d.value))]
             /\ h_events' = [h_events EXCEPT ![h] =
                                @ \o <<SseEvent(JsonDumps(d.value)), DoneEvent>>]
             /\ UNCHANGED h_error
        ELSE /\ h_error' = [h_error EXCEPT ![h] = d.error]
             /\ UNCHANGED <<h_tokens, h_events>>

\* answer_question_stream, first iteration, to its first await: _get_vectorstore
\* (FileNotFoundError caught), retriever.invoke, `if not docs`, _build_prompt.
StreamStart(h) ==
    /\ pc[h] = "s_start"
    /\ LET available == VectorstoreAvailable(vs_cached, index_on_disk)
       IN  /\ vs_cached' = available
           /\ vs_loads' = LoadsAfter(vs_loads, vs_cached, index_on_disk)
           /\ vs_store' = CachedStoreAfter(vs_store, vs_loads, index_on_disk)
           /\ \E retrieval \in Retrievals :
               /\ h_docs' = [h_docs EXCEPT ![h] = DocsAfter(available, retrieval)]
               /\ IF ~available
                  THEN /\ StreamDefault(h)
                       /\ StreamLocalsEnd(h)
                       /\ pc' = [pc EXCEPT ![h] = "stream_done"]
                  ELSE IF retrieval.fails
                  THEN /\ h_error' = [h_error EXCEPT ![h] = UpstreamError.error]
                       /\ StreamLocalsEnd(h)
                       /\ pc' = [pc EXCEPT ![h] = "stream_done"]
                       /\ UNCHANGED <<h_tokens, h_events>>
                  ELSE IF retrieval.docs = <<>>
                  THEN /\ StreamDefault(h)
                       /\ StreamLocalsEnd(h)
                       /\ pc' = [pc EXCEPT ![h] = "stream_done"]
                  ELSE /\ pc' = [pc EXCEPT ![h] = "s_generate"]
                       /\ UNCHANGED <<h_tokens, h_events, h_error>>
                       /\ UNCHANGED <<h_req, h_job_id, h_call>>
    /\ UNCHANGED registry_vars
    /\ UNCHANGED <<offline_vars, caller_vars>>

\* async for chunk in chain.astream(...): yield chunk.content, framed by
\* _event_generator.
StreamToken(h) ==
    /\ pc[h] = "s_generate"
    /\ Len(h_tokens[h]) < MaxTokens
    /\ \E token \in Tokens :
        /\ h_tokens' = [h_tokens EXCEPT ![h] = Append(@, token)]
        /\ h_events' = [h_events EXCEPT ![h] = Append(@, SseEvent(token))]
    /\ UNCHANGED <<vs_cached, cache_vars, caller_vars, h_docs, h_error, pc, h_req, h_job_id, h_call>>
    /\ UNCHANGED registry_vars
    /\ UNCHANGED offline_vars

\* chain.astream is exhausted: _event_generator yields "data: [DONE]\n\n".
StreamEnd(h) ==
    /\ pc[h] = "s_generate"
    /\ h_events' = [h_events EXCEPT ![h] = Append(@, DoneEvent)]
    /\ pc' = [pc EXCEPT ![h] = "stream_done"]
    /\ StreamLocalsEnd(h)
    /\ UNCHANGED <<vs_cached, cache_vars, caller_vars, h_docs, h_tokens, h_error>>
    /\ UNCHANGED registry_vars
    /\ UNCHANGED offline_vars

\* chain.astream raises (the generation call fails): the exception leaves
\* _event_generator before its last yield.
StreamGenerationFails(h) ==
    /\ pc[h] = "s_generate"
    /\ h_error' = [h_error EXCEPT ![h] = UpstreamError.error]
    /\ pc' = [pc EXCEPT ![h] = "stream_done"]
    /\ StreamLocalsEnd(h)
    /\ UNCHANGED <<vs_cached, cache_vars, caller_vars, h_docs, h_tokens, h_events>>
    /\ UNCHANGED registry_vars
    /\ UNCHANGED offline_vars

\* query_sync's answer: the dict answer_question returned, or 500 when an
\* exception left it.
SyncResponse(result) ==
    IF result.ok THEN [status |-> 200, body |-> result.value]
    ELSE [status |-> 500]

\* POST /query/sync: answer_question(req.question, req.trade_analysis, **kwargs),
\* a blocking call made from the coroutine: it runs without a switch.
QuerySync(h) ==
    /\ Accepts(h)
    /\ syncs < MaxSyncs
    /\ syncs' = syncs + 1
    /\ \E req \in Requests, retrieval \in Retrievals, generation \in Generations :
        LET available == VectorstoreAvailable(vs_cached, index_on_disk)
            result == AnswerQuestion(available, retrieval, generation)
        IN  /\ h_req' = [h_req EXCEPT ![h] = req]
            /\ h_call' = [h_call EXCEPT ![h] =
                  PipelineCall(req.question, req.trade_analysis, PromptKwargs(req))]
            /\ vs_cached' = available
            /\ vs_loads' = LoadsAfter(vs_loads, vs_cached, index_on_disk)
            /\ vs_store' = CachedStoreAfter(vs_store, vs_loads, index_on_disk)
            /\ h_docs' = [h_docs EXCEPT ![h] = DocsAfter(available, retrieval)]
            /\ response' = [response EXCEPT ![h] = SyncResponse(result)]
            /\ h_error' = [h_error EXCEPT ![h] = IF result.ok THEN "" ELSE result.error]
    /\ pc' = [pc EXCEPT ![h] = "sync_done"]
    /\ h_job_id' = [h_job_id EXCEPT ![h] = ""]
    /\ h_now' = [h_now EXCEPT ![h] = 0]
    /\ h_tokens' = [h_tokens EXCEPT ![h] = <<>>]
    /\ h_events' = [h_events EXCEPT ![h] = <<>>]
    /\ UNCHANGED <<_jobs, _jobs_lock, submits, streams, index_on_disk>>
    /\ UNCHANGED <<time_vars, hist_vars>>
    /\ UNCHANGED <<offline_vars, caller_vars>>

\* ------------------------------------- services/rag.py: learn_from_trade

\* rag.py: _LEARN_QUESTION
_LEARN_QUESTION == "What are the key learning points for this trade?"

\* x or default, of an optional string: None and "" are falsy.
OrElse(x, default) ==
    IF x = {} THEN default
    ELSE IF TheValue(x) = "" THEN default
    ELSE TheValue(x)

\* The (trade_analysis, question) arguments the backend calls learn_from_trade with.
LearnArgs ==
    [trade_analysis : {"", "CALL option trade"},
     question : {{}, Some("What is RSI?")}]

\* What a step of a worker thread leaves alone.
thread_frame == <<_jobs, _jobs_lock, time_vars, count_vars, hist_vars, pc, h_req,
                  h_job_id, h_now, h_call, h_docs, h_tokens, h_events, h_error,
                  response, offline_vars>>

\* learn_from_trade(trade_analysis, question), to answer_question's call of
\* _get_vectorstore: q = question or _LEARN_QUESTION, and
\* answer_question(question=q, trade_analysis=trade_analysis or "none").
LearnFromTrade(c) ==
    /\ l_pc[c] \in {"idle", "done"}
    /\ learns < MaxLearns
    /\ learns' = learns + 1
    /\ \E args \in LearnArgs :
        /\ l_args' = [l_args EXCEPT ![c] = args]
        /\ l_call' = [l_call EXCEPT ![c] =
              PipelineCall(OrElse(args.question, _LEARN_QUESTION),
                           OrElse(Some(args.trade_analysis), "none"),
                           [k \in {} |-> None])]
    /\ l_docs' = [l_docs EXCEPT ![c] = NoDocs]
    /\ l_store' = [l_store EXCEPT ![c] = 0]
    /\ l_result' = [l_result EXCEPT ![c] = None]
    /\ l_pc' = [l_pc EXCEPT ![c] = "lookup"]
    /\ UNCHANGED <<index_on_disk, vs_cached, cache_vars>>
    /\ UNCHANGED <<thread_frame, db_vars, build_vars>>

\* _get_vectorstore(), the lru_cache wrapper's lookup: a hit returns the object
\* the cache holds; a miss goes on to call the function, no lock held.
GetVectorstoreLookup(c) ==
    /\ l_pc[c] = "lookup"
    /\ IF vs_store # 0
       THEN /\ l_store' = [l_store EXCEPT ![c] = vs_store]
            /\ l_pc' = [l_pc EXCEPT ![c] = "retrieve"]
       ELSE /\ l_pc' = [l_pc EXCEPT ![c] = "load"]
            /\ UNCHANGED l_store
    /\ UNCHANGED <<learns, l_args, l_call, l_docs, l_result>>
    /\ UNCHANGED <<index_on_disk, vs_cached, cache_vars>>
    /\ UNCHANGED <<thread_frame, db_vars, build_vars>>

\* What learn_from_trade does with answer_question's outcome: `return result`;
\* `except FileNotFoundError: raise`; any other exception leaves it as it came.
LearnFromTradeResult(result) ==
    IF result.ok THEN result
    ELSE IF result.error = "FileNotFoundError" THEN result
    ELSE result

\* _get_vectorstore(), the function's body after a miss. With index.faiss it
\* loads a store, returns it to this caller, and the wrapper caches it unless
\* an entry was made meanwhile. Without, FileNotFoundError, which answer_question
\* catches: it returns _default_answer(), and learn_from_trade ends with that.
GetVectorstoreLoad(c) ==
    /\ l_pc[c] = "load"
    /\ IF index_on_disk
       THEN /\ vs_loads' = vs_loads + 1
            /\ vs_store' = CachedStoreAfter(vs_store, vs_loads, TRUE)
            /\ vs_cached' = TRUE
            /\ l_store' = [l_store EXCEPT ![c] = vs_loads + 1]
            /\ l_pc' = [l_pc EXCEPT ![c] = "retrieve"]
            /\ UNCHANGED <<l_docs, l_result>>
       ELSE /\ l_docs' = [l_docs EXCEPT ![c] = DocsAfter(FALSE, [fails |-> FALSE])]
            /\ l_result' = [l_result EXCEPT ![c] =
                  LearnFromTradeResult(
                      AnswerQuestion(FALSE, [fails |-> FALSE], [fails |-> FALSE]))]
            /\ l_pc' = [l_pc EXCEPT ![c] = "done"]
            /\ UNCHANGED <<vs_loads, vs_store, vs_cached, l_store>>
    /\ UNCHANGED <<learns, l_args, l_call, index_on_disk>>
    /\ UNCHANGED <<thread_frame, db_vars, build_vars>>

\* answer_question from the retrieval on, with the store in hand, and
\* learn_from_trade's return.
LearnAnswer(c) ==
    /\ l_pc[c] = "retrieve"
    /\ \E retrieval \in Retrievals, generation \in Generations :
        /\ l_docs' = [l_docs EXCEPT ![c] = DocsAfter(TRUE, retrieval)]
        /\ l_result' = [l_result EXCEPT ![c] =
              LearnFromTradeResult(AnswerQuestion(TRUE, retrieval, generation))]
    /\ l_pc' = [l_pc EXCEPT ![c] = "done"]
    /\ UNCHANGED <<learns, l_args, l_call, l_store>>
    /\ UNCHANGED <<index_on_disk, vs_cached, cache_vars>>
    /\ UNCHANGED <<thread_frame, db_vars, build_vars>>

\* --------------------------- routes/transactions.py, db/crud_transactions.py

\* TransactionIn: loginid and user_id optional, contract_id, run_id optional,
\* and the contract's figures, of which profit stands for all.
TransactionIn(loginid, user_id, contract_id, run_id, profit) ==
    [loginid |-> loginid, user_id |-> user_id, contract_id |-> contract_id,
     run_id |-> run_id, profit |-> profit]

\* The items the bot's clients send.
ItemPool ==
    { TransactionIn(Some("CR1"), {}, "c1", Some("run1"), 10),
      TransactionIn(Some("CR1"), {}, "c1", {}, 0 - 5),
      TransactionIn({}, Some("CR2"), "c1", {}, 7),
      TransactionIn({}, {}, "c2", {}, 3) }

RECURSIVE SeqsUpTo(_, _)
\* The sequences over S of length 1..n.
SeqsUpTo(S, n) ==
    IF n = 0 THEN {}
    ELSE {<<x>> : x \in S} \cup
         {Append(q, x) : q \in SeqsUpTo(S, n - 1), x \in S}

\* body if isinstance(body, list) else [body]: the batches of a request.
Batches == SeqsUpTo(ItemPool, MaxItems)

\* t.loginid or t.user_id; "" stands for a falsy result.
UserIdOf(t) ==
    IF t.loginid # {} /\ TheValue(t.loginid) # "" THEN TheValue(t.loginid)
    ELSE IF t.user_id # {} /\ TheValue(t.user_id) # "" THEN TheValue(t.user_id)
    ELSE ""

\* get_session_factory: sessionmaker(autocommit=False, autoflush=False, bind=engine)
Autoflush == FALSE

\* The rows session.query(Transaction) sees: those of the table, and with
\* autoflush the pending objects too, which the query flushes first.
QueryRows(rows, pending) == IF Autoflush THEN rows \o pending ELSE rows

\* .filter(user_id == ..., contract_id == ...).first(): the position of the row
\* in `rows`, 0 for None.
FirstMatch(rows, user_id, contract_id) ==
    LET hits == {k \in 1..Len(rows) :
                    rows[k].user_id = user_id /\ rows[k].contract_id = contract_id}
    IN  IF hits = {} THEN 0 ELSE CHOOSE k \in hits : \A j \in hits : k <= j

\* UniqueConstraint("user_id", "contract_id", name="uq_user_contract")
UqUserContract(rows) ==
    \A j, k \in 1..Len(rows) :
        (rows[j].user_id = rows[k].user_id /\ rows[j].contract_id = rows[k].contract_id)
            => j = k

\* The table after the flush of a commit: the rows the session changed, and its
\* pending objects inserted in the order they were added, id by autoincrement
\* (0 is the `id` of an object not yet flushed: None).
Flushed(rows, loaded, pending) ==
    [k \in 1..(Len(rows) + Len(pending)) |->
        IF k <= Len(rows)
        THEN (IF k \in DOMAIN loaded THEN loaded[k] ELSE rows[k])
        ELSE [pending[k - Len(rows)] EXCEPT !.id = k]]

\* TransactionSyncResponse(count=len(ids), ids=ids): ids is list[int], which
\* pydantic validates.
TransactionSyncResponse(ids) ==
    IF \E k \in 1..Len(ids) : ids[k] = 0
    THEN [status |-> 500, error |-> "ValidationError"]
    ELSE [status |-> 201, count |-> Len(ids), ids |-> ids]

\* What a step of the sync request leaves alone.
db_frame == <<_jobs, _jobs_lock, time_vars, count_vars, hist_vars, pc, h_req,
              h_job_id, h_now, h_call, h_docs, h_tokens, h_events, h_error,
              response, offline_vars, index_on_disk, vs_cached, cache_vars,
              learn_vars, build_vars>>

\* POST /api/transactions: get_db opens a session; items = body or [body].
SyncTransactions ==
    /\ t_pc \in {"idle", "done"}
    /\ batches < MaxBatches
    /\ batches' = batches + 1
    /\ \E items \in Batches : t_items' = items
    /\ t_i' = 1
    /\ t_new' = <<>>
    /\ t_loaded' = [k \in {} |-> None]
    /\ t_ids' = <<>>
    /\ t_response' = NoResponse
    /\ t_pc' = "loop"
    /\ UNCHANGED transactions
    /\ UNCHANGED db_frame

\* One turn of `for t in items`: the 400 when the item names no user (the
\* session is closed with nothing committed), else upsert_transaction: the
\* query's first row updated in place, or a new Transaction added to the
\* session; and ids.append(row.id).
UpsertTransaction ==
    /\ t_pc = "loop"
    /\ t_i <= Len(t_items)
    /\ LET t == t_items[t_i]
           user_id == UserIdOf(t)
           rows == QueryRows(transactions, t_new)
           k == FirstMatch(rows, user_id, t.contract_id)
           row == IF k \in DOMAIN t_loaded THEN t_loaded[k] ELSE rows[k]
       IN  IF user_id = ""
           THEN /\ t_response' = [status |-> 400, detail |-> "loginid or user_id required"]
                /\ t_pc' = "done"
                /\ t_new' = <<>>
                /\ t_loaded' = [j \in {} |-> None]
                /\ UNCHANGED <<t_i, t_ids>>
           ELSE IF k # 0
           THEN /\ t_loaded' = DictSet(t_loaded, k,
                      [row EXCEPT !.run_id = IF t.run_id = {} THEN row.run_id ELSE t.run_id,
                                  !.profit = t.profit])
                /\ t_ids' = Append(t_ids, row.id)
                /\ t_i' = t_i + 1
                /\ UNCHANGED <<t_new, t_pc, t_response>>
           ELSE /\ t_new' = Append(t_new,
                      [id |-> 0, user_id |-> user_id, contract_id |-> t.contract_id,
                       run_id |-> t.run_id, profit |-> t.profit])
                /\ t_ids' = Append(t_ids, 0)
                /\ t_i' = t_i + 1
                /\ UNCHANGED <<t_loaded, t_pc, t_response>>
    /\ UNCHANGED <<transactions, batches, t_items>>
    /\ UNCHANGED db_frame

\* db.commit() after the loop: the flush, which the unique constraint rejects
\* whole (IntegrityError, nothing stored), and the response.
Commit ==
    /\ t_pc = "loop"
    /\ t_i > Len(t_items)
    /\ LET rows == Flushed(transactions, t_loaded, t_new)
       IN  IF UqUserContract(rows)
           THEN /\ transactions' = rows
                /\ t_response' = TransactionSyncResponse(t_ids)
           ELSE /\ t_response' = [status |-> 500, error |-> "IntegrityError"]
                /\ UNCHANGED transactions
    /\ t_new' = <<>>
    /\ t_loaded' = [j \in {} |-> None]
    /\ t_pc' = "done"
    /\ UNCHANGED <<batches, t_items, t_i, t_ids>>
    /\ UNCHANGED db_frame

\* ------------------------------------------------------------------ texts

\* A text is a sequence of pieces: each brace character is a piece of its own
\* ("{" or "}"), and every run of other characters between braces is one piece.
IsBrace(p) == p \in {"{", "}"}

\* A string without braces, as a text.
Str(s) == IF s = "" THEN <<>> ELSE <<s>>

\* The strings with braces among the values callers and prompt.json supply, and
\* their pieces.
BracePieces ==
    [s \in {"Answer as {persona}.", "Reply in {language}.", "Close every } you open.",
            "RSI = 100 - 100 / (1 + {RS})", "What does {ticker} mean?"} |->
        CASE s = "Answer as {persona}." -> <<"Answer as ", "{", "persona", "}", ".">>
          [] s = "Reply in {language}." -> <<"Reply in ", "{", "language", "}", ".">>
          [] s = "Close every } you open." -> <<"Close every ", "}", " you open.">>
          [] s = "RSI = 100 - 100 / (1 + {RS})" ->
                <<"RSI = 100 - 100 / (1 + ", "{", "RS", "}", ")">>
          [] s = "What does {ticker} mean?" ->
                <<"What does ", "{", "ticker", "}", " mean?">>]

\* Any string as a text.
Pieces(s) == IF s \in DOMAIN BracePieces THEN BracePieces[s] ELSE Str(s)

\* a + b: the pieces that meet are one run unless one of them is a brace.
Cat(a, b) ==
    IF a = <<>> THEN b
    ELSE IF b = <<>> THEN a
    ELSE IF ~IsBrace(a[Len(a)]) /\ ~IsBrace(b[1])
    THEN SubSeq(a, 1, Len(a) - 1) \o <<a[Len(a)] \o b[1]>> \o Tail(b)
    ELSE a \o b

RECURSIVE JoinStrings(_, _)
\* sep.join(strs), of strings without braces.
JoinStrings(strs, sep) ==
    IF strs = <<>> THEN ""
    ELSE IF Len(strs) = 1 THEN strs[1]
    ELSE strs[1] \o sep \o JoinStrings(Tail(strs), sep)

RECURSIVE JoinTexts(_, _)
\* sep.join(texts)
JoinTexts(texts, sep) ==
    IF texts = <<>> THEN <<>>
    ELSE IF Len(texts) = 1 THEN texts[1]
    ELSE Cat(texts[1], Cat(Str(sep), JoinTexts(Tail(texts), sep)))

RECURSIVE ReplaceAll(_, _, _)
\* text.replace(brace, replacement), for a brace character.
ReplaceAll(text, brace, replacement) ==
    IF text = <<>> THEN <<>>
    ELSE (IF text[1] = brace THEN replacement ELSE <<text[1]>>)
         \o ReplaceAll(Tail(text), brace, replacement)

\* x in xs, for a list xs.
InList(x, xs) == \E i \in 1..Len(xs) : xs[i] = x

\* bool(opt) of an Optional[str]: None and "" are false.
TruthyStr(opt) == opt # {} /\ TheValue(opt) # ""

\* bool(opt) of an Optional[list]: None and [] are false.
TruthyList(opt) == opt # {} /\ TheValue(opt) # <<>>

\* ------------------------------------------------ prompt.py: the composer

\* A variant of the order with the rules block ahead of the role block.
SectionOrder_RulesFirst ==
    <<"rules", "role", "inputs", "reasoning", "output_schema", "response_depth", "tone",
      "engagement", "examples", "extra_instructions">>

\* The order of build_system_prompt's blocks.
SectionOrder ==
    <<"role", "inputs", "reasoning", "output_schema", "response_depth", "tone",
      "engagement", "rules", "examples", "extra_instructions">>

\* json.dumps of a dict of strings: {"k": "v", ...}
JsonObjText(members) ==
    Cat(<<"{">>,
        Cat(Str(JoinStrings([i \in 1..Len(members) |->
                    "\"" \o members[i].key \o "\": \"" \o members[i].val \o "\""], ", ")),
            <<"}">>))

\* json.dumps of one member of an example's expected_output: a string, a list of
\* strings, or a list of dicts of strings.
JsonMemberText(m) ==
    Cat(Str("\"" \o m.key \o "\": "),
        IF m.kind = "str" THEN Str("\"" \o m.val \o "\"")
        ELSE IF m.kind = "list" THEN Str("[" \o JsonList(m.val) \o "]")
        ELSE Cat(Str("["),
                 Cat(JoinTexts([i \in 1..Len(m.val) |-> JsonObjText(m.val[i])], ", "),
                     Str("]"))))

\* json.dumps(ex["expected_output"], ensure_ascii=False)
JsonDumpsText(members) ==
    Cat(<<"{">>,
        Cat(JoinTexts([i \in 1..Len(members) |-> JsonMemberText(members[i])], ", "),
            <<"}">>))

\* The contents prompt.json may have (the file is configuration data).
Library1 ==
    [role |-> "You are a trading tutor.",
     inputs |-> "## Inputs\nTRADE_ANALYSIS, QUESTION, CONTEXT",
     reasoning |-> <<"1. Classify the difficulty.", "2. Ground the answer in CONTEXT.">>,
     output_schema |-> <<"## Output\n", "{", "format_instructions", "}">>,
     response_depth |->
        <<[key |-> "beginner", target_length |-> "80-120 words", style |-> "plain"],
          [key |-> "advanced", target_length |-> "200-300 words", style |-> "technical"]>>,
     tone |-> <<"Be encouraging.", "Avoid jargon.">>,
     engagement |-> <<"End with a reflection question.">>,
     rules |-> <<"Use only CONTEXT.", "Cite sources.">>,
     examples |->
        <<[label |-> "RSI basics", difficulty |-> "beginner", trade_analysis |-> "none",
           question |-> "What is RSI?", context |-> "[rsi.html]\nRSI measures momentum.",
           expected_output |->
              <<[key |-> "difficulty", kind |-> "str", val |-> "beginner"],
                [key |-> "answer", kind |-> "str", val |-> "RSI is a momentum gauge."],
                [key |-> "sources", kind |-> "list", val |-> <<"rsi.html">>]>>],
          [label |-> "Gamma risk", difficulty |-> "advanced",
           trade_analysis |-> "CALL option trade",
           question |-> "What is gamma?", context |-> "[greeks.html]\nGamma is ...",
           expected_output |->
              <<[key |-> "difficulty", kind |-> "str", val |-> "advanced"],
                [key |-> "deep_dive_links", kind |-> "objs",
                 val |-> << <<[key |-> "title", val |-> "Greeks"],
                              [key |-> "url", val |-> "https://example.com/greeks"]>>,
                            <<>> >>],
                [key |-> "sources", kind |-> "list", val |-> <<>>]>>]>>]

\* A library without the optional "engagement" key.
Library2 ==
    [role |-> "You are a markets coach.",
     inputs |-> "## Inputs\nQUESTION, CONTEXT",
     reasoning |-> <<"1. Read CONTEXT.">>,
     output_schema |-> <<"{", "format_instructions", "}">>,
     response_depth |->
        <<[key |-> "intermediate", target_length |-> "150 words", style |-> "balanced"]>>,
     tone |-> <<"Be concise.">>,
     rules |-> <<"Never give financial advice.">>,
     examples |->
        <<[label |-> "Empty", difficulty |-> "beginner", trade_analysis |-> "none",
           question |-> "What is a pip?", context |-> "(none)",
           expected_output |-> <<>>]>>]

Libraries == {Library1, Library2}

\* The keyword arguments callers pass to build_system_prompt.
PromptArgs ==
    [sections : {{}, Some(<<>>), Some(<<"role", "rules">>),
                 Some(<<"rules", "role", "rules">>),
                 Some(<<"examples">>),
                 Some(<<"examples", "response_depth", "output_schema">>),
                 Some(<<"extra_instructions", "engagement", "tone", "reasoning",
                        "inputs">>)},
     difficulty : {{}, Some(""), Some("beginner"), Some("expert")},
     include_examples : BOOLEAN,
     extra_rules : {{}, Some(<<>>), Some(<<"Respond in Spanish.", "Be brief.">>)},
     extra_instructions : {{}, Some(""), Some("Keep it under 100 words.")}]

\* A variant of the test that takes an empty `sections` list for "all".
Selected_EmptyIsAll(name, sections) ==
    ~TruthyList(sections) \/ InList(name, TheValue(sections))

\* `_all or name in sections`
Selected(name, sections) == sections = {} \/ InList(name, TheValue(sections))

\* One row of the response-depth table.
DepthRow(k, v) == "| " \o k \o " | " \o v.target_length \o " | " \o v.style \o " |"

\* Block 5: the table's header, and the row of `difficulty` when it is a key of
\* the table, else every row.
ResponseDepthPart(depth, difficulty) ==
    LET header == "## Response-depth guidelines\n\n"
                  \o "| Difficulty | Target length | Style |\n"
                  \o "|------------|---------------|-------|\n"
        known == TruthyStr(difficulty)
                 /\ \E i \in 1..Len(depth) : depth[i].key = TheValue(difficulty)
        rows == IF known
                THEN LET i == CHOOSE i \in 1..Len(depth) : depth[i].key = TheValue(difficulty)
                     IN  DepthRow(TheValue(difficulty), depth[i])
                ELSE JoinStrings([i \in 1..Len(depth) |-> DepthRow(depth[i].key, depth[i])],
                                 "\n")
    IN  header \o rows

\* A variant of block 7 that extends the library's own list (no list() copy).
RulesLists_Aliased(base, extra_rules) ==
    LET rules == IF TruthyList(extra_rules) THEN base \o TheValue(extra_rules) ELSE base
    IN  [rules |-> rules, library |-> rules]

\* Block 7: rules = list(s["rules"]); rules.extend(extra_rules): the local list,
\* and the library's list afterwards.
RulesLists(base, extra_rules) ==
    [rules |-> IF TruthyList(extra_rules) THEN base \o TheValue(extra_rules) ELSE base,
     library |-> base]

\* "\n".join(f"{i}. {r}" for i, r in enumerate(rules, 1))
Numbered(rules) ==
    JoinTexts([i \in 1..Len(rules) |-> Cat(Str(ToString(i) \o ". "), Pieces(rules[i]))],
              "\n")

\* A variant of the escape that doubles the opening braces only.
EscapeBraces_OpenOnly(text) == ReplaceAll(text, "{", <<"{", "{">>)

\* raw_json.replace("{", "{{").replace("}", "}}")
EscapeBraces(text) ==
    ReplaceAll(ReplaceAll(text, "{", <<"{", "{">>), "}", <<"}", "}">>)

\* A variant of block 8 that forgets the filter.
ExamplesFor_Unfiltered(examples, difficulty) == examples

\* Block 8's filter: the examples of `difficulty` when it is set, else all.
ExamplesFor(examples, difficulty) ==
    IF TruthyStr(difficulty)
    THEN SelectSeq(examples, LAMBDA e : e.difficulty = TheValue(difficulty))
    ELSE examples

\* The five entries block 8 appends to ex_parts for one example (the em dash of
\* the source is written as a hyphen).
ExampleParts(ex) ==
    <<Cat(Str("\n### Example - "), Pieces(ex.label)),
      Cat(Str("TRADE_ANALYSIS: "), Pieces(ex.trade_analysis)),
      Cat(Str("QUESTION: "), Pieces(ex.question)),
      Cat(Str("CONTEXT:\n"), Pieces(ex.context)),
      EscapeBraces(JsonDumpsText(ex.expected_output))>>

RECURSIVE ExamplesParts(_)
\* ex_parts after its loop, without the heading.
ExamplesParts(examples) ==
    IF examples = <<>> THEN <<>>
    ELSE ExampleParts(examples[1]) \o ExamplesParts(Tail(examples))

\* What block `name` appends to `parts`: nothing ({}), or one text.
SectionPart(name, s, a) ==
    IF name = "extra_instructions"
    THEN IF TruthyStr(a.extra_instructions)
         THEN Some(Pieces(TheValue(a.extra_instructions))) ELSE {}
    ELSE IF ~Selected(name, a.sections) THEN {}
    ELSE IF name = "role" THEN Some(Str(s.role))
    ELSE IF name = "inputs" THEN Some(Str(s.inputs))
    ELSE IF name = "reasoning"
    THEN Some(Str("## Internal reasoning (do NOT output - perform silently before answering)\n"
                  \o JoinStrings(s.reasoning, "\n")))
    ELSE IF name = "output_schema" THEN Some(s.output_schema)
    ELSE IF name = "response_depth"
    THEN Some(Str(ResponseDepthPart(s.response_depth, a.difficulty)))
    ELSE IF name = "tone"
    THEN Some(Str("## Tone & style (be a coach, not a textbook)\n"
                  \o JoinStrings([i \in 1..Len(s.tone) |-> "- " \o s.tone[i]], "\n")))
    ELSE IF name = "engagement"
    THEN LET eng == IF "engagement" \in DOMAIN s THEN s.engagement ELSE <<>>
         IN  IF eng = <<>> THEN {}
             ELSE Some(Str("## Engagement & curriculum rules (make learning stick)\n"
                           \o JoinStrings([i \in 1..Len(eng) |-> "- " \o eng[i]], "\n")))
    ELSE IF name = "rules"
    THEN Some(Cat(Str("## Rules\n"), Numbered(RulesLists(s.rules, a.extra_rules).rules)))
    ELSE \* examples
         LET examples == ExamplesFor(s.examples, a.difficulty)
         IN  IF ~a.include_examples \/ examples = <<>> THEN {}
             ELSE Some(JoinTexts(<<Str("## Few-shot examples")>> \o ExamplesParts(examples),
                                 "\n"))

\* build_system_prompt(**a) against the library s: the blocks that appended a
\* part, the parts, "\n\n".join(parts), and the library when it returns.
BuildSystemPrompt(s, a) ==
    LET names == SelectSeq(SectionOrder, LAMBDA n : SectionPart(n, s, a) # {})
        parts == [i \in 1..Len(names) |-> TheValue(SectionPart(names[i], s, a))]
    IN  [names |-> names,
         parts |-> parts,
         text |-> JoinTexts(parts, "\n\n"),
         library |-> IF Selected("rules", a.sections)
                     THEN [s EXCEPT !.rules = RulesLists(s.rules, a.extra_rules).library]
                     ELSE s]

\* parser.get_format_instructions(): text with braces of its own.
FormatInstructions == <<"Return JSON that conforms to ", "{", "\"type\": \"object\"", "}">>

\* The result of a formatting step whose rest formatted as `rest`.
FormatCons(head, rest) ==
    IF rest.ok THEN [ok |-> TRUE, text |-> Cat(head, rest.text)] ELSE rest

RECURSIVE FormatText(_, _)
\* The template formatting ChatPromptTemplate applies to a message (str.format
\* rules): "{{" and "}}" give one brace, "{name}" gives kwargs[name], and any
\* other brace raises.
FormatText(text, kwargs) ==
    IF text = <<>> THEN [ok |-> TRUE, text |-> <<>>]
    ELSE IF text[1] = "{"
    THEN IF Len(text) >= 2 /\ text[2] = "{"
         THEN FormatCons(<<"{">>, FormatText(SubSeq(text, 3, Len(text)), kwargs))
         ELSE IF Len(text) >= 3 /\ ~IsBrace(text[2]) /\ text[3] = "}"
         THEN IF text[2] \in DOMAIN kwargs
              THEN FormatCons(kwargs[text[2]],
                              FormatText(SubSeq(text, 4, Len(text)), kwargs))
              ELSE [ok |-> FALSE, error |-> "KeyError"]
         ELSE [ok |-> FALSE, error |-> "ValueError"]
    ELSE IF text[1] = "}"
    THEN IF Len(text) >= 2 /\ text[2] = "}"
         THEN FormatCons(<<"}">>, FormatText(SubSeq(text, 3, Len(text)), kwargs))
         ELSE [ok |-> FALSE, error |-> "ValueError"]
    ELSE FormatCons(<<text[1]>>, FormatText(Tail(text), kwargs))

\* _build_prompt's system message once the template is formatted.
SystemMessage(system_text) ==
    FormatText(system_text, [format_instructions |-> FormatInstructions])

\* The result of a parsing step whose rest parsed as `rest`.
ParseCons(names, rest) ==
    IF rest.ok THEN [ok |-> TRUE, variables |-> names \cup rest.variables] ELSE rest

RECURSIVE TemplateVariables(_)
\* The input variables ChatPromptTemplate.from_messages finds in a message
\* template (string.Formatter().parse): the names between single braces; a
\* brace that is neither doubled nor part of "{name}" is a ValueError.
TemplateVariables(text) ==
    IF text = <<>> THEN [ok |-> TRUE, variables |-> {}]
    ELSE IF text[1] = "{"
    THEN IF Len(text) >= 2 /\ text[2] = "{"
         THEN TemplateVariables(SubSeq(text, 3, Len(text)))
         ELSE IF Len(text) >= 3 /\ ~IsBrace(text[2]) /\ text[3] = "}"
         THEN ParseCons({text[2]}, TemplateVariables(SubSeq(text, 4, Len(text))))
         ELSE [ok |-> FALSE, error |-> "ValueError"]
    ELSE IF text[1] = "}"
    THEN IF Len(text) >= 2 /\ text[2] = "}"
         THEN TemplateVariables(SubSeq(text, 3, Len(text)))
         ELSE [ok |-> FALSE, error |-> "ValueError"]
    ELSE TemplateVariables(Tail(text))

\* A library whose first example has braces in its question and its context.
Library3 ==
    [Library1 EXCEPT
        !.examples = <<[@[1] EXCEPT !.question = "What does {ticker} mean?",
                                    !.context = "RSI = 100 - 100 / (1 + {RS})"],
                       @[2]>>]

\* The keyword arguments _prompt_kwargs hands on from a request's
\* prompt_overrides, whose strings are the client's.
OverrideArgs ==
    [sections : {{}, Some(<<"role">>), Some(<<"rules">>), Some(<<"examples">>)},
     difficulty : {{}, Some("beginner")},
     include_examples : BOOLEAN,
     extra_rules : {{}, Some(<<"Be brief.">>), Some(<<"Answer as {persona}.">>)},
     extra_instructions : {{}, Some("Keep it under 100 words."),
                           Some("Reply in {language}."),
                           Some("Close every } you open.")}]

\* The first call of build_system_prompt (through _build_prompt) since the
\* library was loaded, with arguments among `args`.
BuildSystemPromptFrom(args) ==
    /\ p_args = None
    /\ \E a \in args :
        LET r == BuildSystemPrompt(PROMPT_SECTIONS, a)
        IN  /\ p_args' = a
            /\ p_result' = [names |-> r.names, parts |-> r.parts, text |-> r.text,
                            system |-> SystemMessage(r.text),
                            library |-> PROMPT_SECTIONS]
            /\ PROMPT_SECTIONS' = r.library
    /\ p_prev' = None
    /\ UNCHANGED <<format_vars, ingest_vars>>
    /\ UNCHANGED <<_jobs, _jobs_lock, index_on_disk, vs_cached, cache_vars, caller_vars, pc, h_req, h_job_id,
                   h_now, response>>
    /\ UNCHANGED <<time_vars, count_vars, hist_vars, pipeline_vars>>

\* The first call, with any arguments.
BuildSystemPromptCall == BuildSystemPromptFrom(PromptArgs)

\* _build_prompt(**kwargs) called with a request's overrides.
BuildPrompt == BuildSystemPromptFrom(OverrideArgs)

\* The next call, of the library as it is now: the same arguments once more, or
\* the same without extra_rules.
BuildSystemPromptAgain ==
    /\ p_args # None
    /\ p_prev = None
    /\ \E a \in {p_args, [p_args EXCEPT !.extra_rules = {}]} :
        LET r == BuildSystemPrompt(PROMPT_SECTIONS, a)
        IN  /\ p_args' = a
            /\ p_result' = [names |-> r.names, parts |-> r.parts, text |-> r.text,
                            system |-> SystemMessage(r.text),
                            library |-> PROMPT_SECTIONS]
            /\ PROMPT_SECTIONS' = r.library
    /\ p_prev' = [args |-> p_args, result |-> p_result]
    /\ UNCHANGED <<format_vars, ingest_vars>>
    /\ UNCHANGED <<_jobs, _jobs_lock, index_on_disk, vs_cached, cache_vars, caller_vars, pc, h_req, h_job_id,
                   h_now, response>>
    /\ UNCHANGED <<time_vars, count_vars, hist_vars, pipeline_vars>>

\* A variant of the reload that refills the dict it finds (clear and update):
\* a call that holds that dict sees the new contents.
HeldAfterReload_InPlace(held, loaded) == loaded

\* The dict a build_system_prompt call holds, after a reload that loaded
\* `loaded`: the assignment rebinds the global name and leaves that dict alone.
HeldAfterReload(held, loaded) == held

\* What a step of the composer leaves alone.
composer_frame == <<format_vars, ingest_vars, _jobs, _jobs_lock, index_on_disk,
                    vs_cached, cache_vars, learn_vars, db_vars, pc, h_req, h_job_id,
                    h_now, h_call, h_docs, h_tokens, h_events, h_error, response,
                    time_vars, count_vars, hist_vars>>

\* reload_sections(): PROMPT_SECTIONS = _load_sections(), whatever the file
\* holds, at any moment of a build_system_prompt call of another thread.
ReloadSections ==
    /\ b_pc = "building" => b_reloads < MaxReloads
    /\ \E library \in Libraries :
        /\ PROMPT_SECTIONS' = library
        /\ b_s' = IF b_pc = "building" THEN HeldAfterReload(b_s, library) ELSE b_s
    /\ b_reloads' = IF b_pc = "building" THEN b_reloads + 1 ELSE b_reloads
    /\ p_args' = None
    /\ p_result' = None
    /\ p_prev' = None
    /\ UNCHANGED <<b_pc, b_args, b_i, b_parts, b_result, b_start>>
    /\ UNCHANGED composer_frame

\* build_system_prompt(**a) in a thread, to its first block: s = PROMPT_SECTIONS.
BuildStart ==
    /\ b_pc = "idle"
    /\ \E a \in PromptArgs : b_args' = a
    /\ b_s' = PROMPT_SECTIONS
    /\ b_start' = PROMPT_SECTIONS
    /\ b_i' = 1
    /\ b_parts' = <<>>
    /\ b_pc' = "building"
    /\ UNCHANGED <<b_result, b_reloads, composer_vars>>
    /\ UNCHANGED composer_frame

\* One block of build_system_prompt, read from `s`.
BuildBlock ==
    /\ b_pc = "building"
    /\ b_i <= Len(SectionOrder)
    /\ LET part == SectionPart(SectionOrder[b_i], b_s, b_args)
       IN  b_parts' = IF part = {} THEN b_parts ELSE Append(b_parts, TheValue(part))
    /\ b_i' = b_i + 1
    /\ UNCHANGED <<b_pc, b_args, b_s, b_result, b_start, b_reloads, composer_vars>>
    /\ UNCHANGED composer_frame

\* return "\n\n".join(parts)
BuildReturn ==
    /\ b_pc = "building"
    /\ b_i > Len(SectionOrder)
    /\ b_result' = JoinTexts(b_parts, "\n\n")
    /\ b_pc' = "done"
    /\ UNCHANGED <<b_args, b_s, b_i, b_parts, b_start, b_reloads, composer_vars>>
    /\ UNCHANGED composer_frame

\* --------------------------------------- query/pipeline.py: _format_docs

\* Retrieved documents one _format_docs call may be handed.
MaxDocs == 3

\* n times the character c.
Rep(c, n) == [i \in 1..n |-> c]

\* The metadata keys the ingestion gives a chunk, as sorted() orders them.
MetadataKeys == <<"filename", "h1", "h2", "h3", "source", "source_url">>

\* k.startswith("h")
StartsWithH(k) == k \in {"h1", "h2", "h3"}

\* A langchain Document: page_content, a sequence of characters, and metadata, a
\* dict from some of the keys to strings.
Document(page_content, metadata) ==
    [page_content |-> page_content, metadata |-> metadata]

\* Chunks the retriever can return: two that agree on their first 200 characters
\* and differ at the 201st, one that differs from them at the 200th, one that is
\* exactly their first 200 characters, and a short text found in two files.
RetrievableDocs ==
    { Document(Rep("a", 200) \o <<"x">>,
               [filename |-> "rsi.html", source |-> "/html/rsi.html",
                source_url |-> "https://deriv.com/rsi", h1 |-> "RSI", h2 |-> "Basics"]),
      Document(Rep("a", 200) \o <<"y">>,
               [filename |-> "macd.html", source |-> "/html/macd.html"]),
      Document(Rep("a", 199) \o <<"b", "x">>,
               [filename |-> "call.html", source |-> "/html/call.html",
                source_url |-> "", h1 |-> "CALL"]),
      Document(Rep("a", 200),
               [source |-> "/html/put.html", h3 |-> "PUT"]),
      Document(<<"R", "S", "I">>,
               [filename |-> "a.html", source |-> "/html/a.html", h2 |-> "Intro"]),
      Document(<<"R", "S", "I">>,
               [filename |-> "b.html", source |-> "/html/b.html",
                source_url |-> "https://deriv.com/b"]) }

\* The lists of at most MaxDocs documents.
DocLists == UNION { [1..n -> RetrievableDocs] : n \in 0..MaxDocs }

\* dict.get(key, default)
DictGet(d, key, default) == IF key \in DOMAIN d THEN d[key] ELSE default

\* The whole page content as the signature.
Signature_Whole(page_content) == page_content

\* sig = doc.page_content[:200]
Signature(page_content) ==
    SubSeq(page_content, 1, IF Len(page_content) < 200 THEN Len(page_content) ELSE 200)

\* label = url or filename
Label(metadata) ==
    LET url == DictGet(metadata, "source_url", "")
        filename == DictGet(metadata, "filename", "unknown")
    IN IF url # "" THEN url ELSE filename

\* [v for k, v in sorted(doc.metadata.items()) if k.startswith("h")]
HeaderValues(metadata) ==
    LET keys == SelectSeq(MetadataKeys,
                          LAMBDA k : k \in DOMAIN metadata /\ StartsWithH(k))
    IN [i \in 1..Len(keys) |-> metadata[keys[i]]]

\* header_line = f"  Section: {headers}\n" if headers else ""
HeaderLine(metadata) ==
    LET headers == JoinStrings(HeaderValues(metadata), " > ")
    IN IF headers # "" THEN <<"  Section: " \o headers \o "\n">> ELSE <<>>

\* f"[{label}]\n{header_line}{doc.page_content}"
Block(doc) ==
    <<"[" \o Label(doc.metadata) \o "]\n">> \o HeaderLine(doc.metadata)
        \o doc.page_content

\* The loop of _format_docs over docs[1..n]: the blocks appended and the
\* signatures seen so far.
RECURSIVE FormatLoop(_, _)
FormatLoop(docs, n) ==
    IF n = 0 THEN [parts |-> <<>>, seen |-> {}]
    ELSE LET before == FormatLoop(docs, n - 1)
             sig == Signature(docs[n].page_content)
         IN IF sig \in before.seen THEN before
            ELSE [parts |-> Append(before.parts, Block(docs[n])),
                  seen |-> before.seen \cup {sig}]

\* "\n\n".join(parts), over sequences of characters and strings
RECURSIVE JoinBlocks(_)
JoinBlocks(parts) ==
    IF parts = <<>> THEN <<>>
    ELSE IF Len(parts) = 1 THEN parts[1]
    ELSE parts[1] \o <<"\n\n">> \o JoinBlocks(Tail(parts))

\* _format_docs(docs): the blocks, and the context string they are joined into.
FormatDocs(docs) ==
    LET parts == FormatLoop(docs, Len(docs)).parts
    IN [parts |-> parts, text |-> JoinBlocks(parts)]

\* context = _format_docs(docs) on the documents a retrieval returned.
FormatDocsCall ==
    /\ f_context = None
    /\ f_context' = FormatDocs(f_docs)
    /\ UNCHANGED <<f_docs, _jobs, _jobs_lock, clock, ticks, submits, streams, syncs,
                   index_on_disk, vs_cached, cache_vars, caller_vars, pc, h_req, h_job_id, h_now, h_call,
                   h_docs, h_tokens, h_events, h_error, response, hist_vars,
                   composer_vars, ingest_vars>>

\* ------------------------------- ingestion/pipeline.py: texts and markdown

\* Texts of the ingestion are sequences of characters. The characters str.strip()
\* removes, of those the texts here are made of.
IsSpace(c) == c \in {" ", "\n"}

RECURSIVE LStrip(_)
LStrip(t) == IF t # <<>> /\ IsSpace(t[1]) THEN LStrip(Tail(t)) ELSE t

RECURSIVE RStrip(_)
RStrip(t) ==
    IF t # <<>> /\ IsSpace(t[Len(t)]) THEN RStrip(SubSeq(t, 1, Len(t) - 1)) ELSE t

\* str.strip()
Strip(t) == RStrip(LStrip(t))

RECURSIVE CollapseNewlines(_)
\* re.sub(r"\n{3,}", "\n\n", markdown)
CollapseNewlines(t) ==
    IF Len(t) < 3 THEN t
    ELSE IF t[1] = "\n" /\ t[2] = "\n" /\ t[3] = "\n" THEN CollapseNewlines(Tail(t))
    ELSE <<t[1]>> \o CollapseNewlines(Tail(t))

\* html_to_clean_markdown(raw), given what markdownify made of the cleaned soup.
HtmlToCleanMarkdown(markdown) == Strip(CollapseNewlines(markdown))

RECURSIVE SplitLines(_)
\* text.split("\n")
SplitLines(t) ==
    IF \A i \in 1..Len(t) : t[i] # "\n" THEN <<t>>
    ELSE LET i == CHOOSE k \in 1..Len(t) :
                      t[k] = "\n" /\ \A j \in 1..(k - 1) : t[j] # "\n"
         IN <<SubSeq(t, 1, i - 1)>> \o SplitLines(SubSeq(t, i + 1, Len(t)))

RECURSIVE JoinSeqs(_, _)
\* sep.join(texts)
JoinSeqs(texts, sep) ==
    IF texts = <<>> THEN <<>>
    ELSE IF Len(texts) = 1 THEN texts[1]
    ELSE texts[1] \o sep \o JoinSeqs(Tail(texts), sep)

RECURSIVE AsString(_)
\* The characters of t as one string.
AsString(t) == IF t = <<>> THEN "" ELSE t[1] \o AsString(Tail(t))

\* dict(), and {**a, **b}
EmptyDict == [k \in {} |-> ""]
DictUpdate(a, b) ==
    [k \in DOMAIN a \cup DOMAIN b |-> IF k \in DOMAIN b THEN b[k] ELSE a[k]]

\* ----------------------- langchain_text_splitters: MarkdownHeaderTextSplitter

\* headers_to_split_on=[("#", "h1"), ("##", "h2"), ("###", "h3")], which the
\* splitter sorts by the length of the marker, longest first.
HeadersToSplitOn ==
    << [sep |-> <<"#", "#", "#">>, name |-> "h3"],
       [sep |-> <<"#", "#">>, name |-> "h2"],
       [sep |-> <<"#">>, name |-> "h1"] >>

\* stripped_line.startswith(sep) and
\* (len(stripped_line) == len(sep) or stripped_line[len(sep)] == " ")
IsHeader(stripped_line, sep) ==
    /\ Len(stripped_line) >= Len(sep)
    /\ SubSeq(stripped_line, 1, Len(sep)) = sep
    /\ (Len(stripped_line) = Len(sep) \/ stripped_line[Len(sep) + 1] = " ")

\* The first of headers_to_split_on the line matches, or 0.
MatchingHeader(stripped_line) ==
    LET matching == {i \in 1..Len(HeadersToSplitOn) :
                        IsHeader(stripped_line, HeadersToSplitOn[i].sep)}
    IN IF matching = {} THEN 0
       ELSE CHOOSE i \in matching : \A j \in matching : i <= j

RECURSIVE PopHeaders(_, _)
\* while header_stack and header_stack[-1]["level"] >= current_header_level: pop
PopHeaders(header_stack, level) ==
    IF header_stack # <<>> /\ header_stack[Len(header_stack)].level >= level
    THEN PopHeaders(SubSeq(header_stack, 1, Len(header_stack) - 1), level)
    ELSE header_stack

\* The splitter's state before its first line.
MdStart ==
    [lines_with_metadata |-> <<>>, current_content |-> <<>>,
     current_metadata |-> EmptyDict, header_stack |-> <<>>,
     initial_metadata |-> EmptyDict]

\* lines_with_metadata.append({"content": "\n".join(current_content), ...})
MdFlush(st) ==
    IF st.current_content = <<>> THEN st.lines_with_metadata
    ELSE Append(st.lines_with_metadata,
                [content |-> JoinSeqs(st.current_content, <<"\n">>),
                 metadata |-> st.current_metadata])

\* One pass of split_text's loop over the lines (no code fences in these texts).
MdLine(st, line) ==
    LET stripped_line == Strip(line)
        h == MatchingHeader(stripped_line)
    IN IF h # 0
       THEN LET sep == HeadersToSplitOn[h].sep
                name == HeadersToSplitOn[h].name
                kept == PopHeaders(st.header_stack, Len(sep))
                popped == {st.header_stack[i].name :
                              i \in (Len(kept) + 1)..Len(st.header_stack)}
                data == AsString(Strip(SubSeq(stripped_line, Len(sep) + 1,
                                              Len(stripped_line))))
                metadata == DictUpdate(DictDel(st.initial_metadata,
                                               popped \cap DOMAIN st.initial_metadata),
                                       [k \in {name} |-> data])
            IN [lines_with_metadata |-> MdFlush(st),
                current_content |-> <<stripped_line>>,
                current_metadata |-> metadata,
                header_stack |-> Append(kept, [level |-> Len(sep), name |-> name,
                                               data |-> data]),
                initial_metadata |-> metadata]
       ELSE IF stripped_line # <<>>
       THEN [st EXCEPT !.current_content = Append(@, stripped_line),
                       !.current_metadata = st.initial_metadata]
       ELSE [st EXCEPT !.lines_with_metadata = MdFlush(st),
                       !.current_content = <<>>,
                       !.current_metadata = st.initial_metadata]

RECURSIVE MdLoop(_, _)
\* The splitter's state after the first n lines.
MdLoop(lines, n) ==
    IF n = 0 THEN MdStart ELSE MdLine(MdLoop(lines, n - 1), lines[n])

\* content.split("\n")[-1]
LastLine(content) == LET lines == SplitLines(content) IN lines[Len(lines)]

\* One pass of aggregate_lines_to_chunks' loop (strip_headers=False).
AggregateLine(aggregated_chunks, line) ==
    LET n == Len(aggregated_chunks)
        last == aggregated_chunks[n]
    IN IF n > 0 /\ last.metadata = line.metadata
       THEN [aggregated_chunks EXCEPT
                ![n].content = @ \o <<" ", " ", "\n">> \o line.content]
       ELSE IF /\ n > 0
               /\ Cardinality(DOMAIN last.metadata) < Cardinality(DOMAIN line.metadata)
               /\ LastLine(last.content)[1] = "#"
       THEN [aggregated_chunks EXCEPT
                ![n].content = @ \o <<" ", " ", "\n">> \o line.content,
                ![n].metadata = line.metadata]
       ELSE Append(aggregated_chunks, line)

RECURSIVE AggregateLinesToChunks(_, _)
AggregateLinesToChunks(lines, n) ==
    IF n = 0 THEN <<>>
    ELSE AggregateLine(AggregateLinesToChunks(lines, n - 1), lines[n])

\* md_splitter.split_text(text): the stage-A segments, each a text and the
\* header path above it.
MdSplitText(text) ==
    LET lines == SplitLines(text)
        st == MdLoop(lines, Len(lines))
        lines_with_metadata == MdFlush(st)
    IN AggregateLinesToChunks(lines_with_metadata, Len(lines_with_metadata))

\* -------------------- langchain_text_splitters: RecursiveCharacterTextSplitter

\* The splitter's default separators: "\n\n", "\n", " ", "".
Separators == << <<"\n", "\n">>, <<"\n">>, <<" ">>, <<>> >>

\* A piece of a segment is the slice seg[start..stop] (keep_separator is on and
\* the pieces are joined with "", so every piece and every merged run of pieces
\* is a slice of the segment).
Slice(start, stop) == [start |-> start, stop |-> stop]
SliceLen(s) == s.stop - s.start + 1
SliceText(seg, s) == SubSeq(seg, s.start, s.stop)

RECURSIVE FindAll(_, _, _, _)
\* Where the leftmost non-overlapping occurrences of sep in seg[from..hi] start.
FindAll(seg, from, hi, sep) ==
    IF from + Len(sep) - 1 > hi THEN <<>>
    ELSE IF SubSeq(seg, from, from + Len(sep) - 1) = sep
    THEN <<from>> \o FindAll(seg, from + Len(sep), hi, sep)
    ELSE FindAll(seg, from + 1, hi, sep)

\* _split_text_with_regex(text, separator, keep_separator=True) on seg[lo..hi]:
\* each separator stays at the start of the piece that follows it, the
\* characters one by one for the separator "", empty pieces dropped.
SplitTextWithRegex(seg, lo, hi, sep) ==
    IF sep = <<>> THEN [i \in 1..(hi - lo + 1) |-> Slice(lo + i - 1, lo + i - 1)]
    ELSE LET m == FindAll(seg, lo, hi, sep)
             pieces == <<Slice(lo, IF m = <<>> THEN hi ELSE m[1] - 1)>> \o
                       [i \in 1..Len(m) |->
                           Slice(m[i], IF i = Len(m) THEN hi ELSE m[i + 1] - 1)]
         IN SelectSeq(pieces, LAMBDA s : s.start <= s.stop)

\* The stripped text of a run of pieces, as a chunk: _join_docs.
JoinDocs(seg, current_doc) ==
    LET s == Slice(current_doc[1].start, current_doc[Len(current_doc)].stop)
        text == Strip(SliceText(seg, s))
    IN IF text = <<>> THEN <<>> ELSE <<[start |-> s.start, stop |-> s.stop, text |-> text]>>

\* total + _len > self._chunk_size, reached already at the chunk size.
Overflows_AtSize(total, len, cfg) == total + len >= cfg.chunk_size

\* total + _len + separator_len > self._chunk_size, the separator being "".
Overflows(total, len, cfg) == total + len > cfg.chunk_size

\* The pieces dropped only until the next one fits.
KeepPopping_UntilFits(total, len, cfg) == Overflows(total, len, cfg) /\ total > 0

\* while total > self._chunk_overlap or (total + _len > self._chunk_size and total > 0)
KeepPopping(total, len, cfg) ==
    total > cfg.chunk_overlap \/ (Overflows(total, len, cfg) /\ total > 0)

RECURSIVE PopFront(_, _, _)
\* The run left once the while loop has dropped pieces from its front.
PopFront(current_doc, len, cfg) ==
    LET total == IF current_doc = <<>> THEN 0
                 ELSE current_doc[Len(current_doc)].stop - current_doc[1].start + 1
    IN IF KeepPopping(total, len, cfg) THEN PopFront(Tail(current_doc), len, cfg)
       ELSE current_doc

\* One pass of _merge_splits' loop.
MergeSplit(seg, st, d, cfg) ==
    LET total == IF st.current_doc = <<>> THEN 0
                 ELSE st.current_doc[Len(st.current_doc)].stop
                        - st.current_doc[1].start + 1
    IN IF Overflows(total, SliceLen(d), cfg) /\ st.current_doc # <<>>
       THEN [docs |-> st.docs \o JoinDocs(seg, st.current_doc),
             current_doc |-> Append(PopFront(st.current_doc, SliceLen(d), cfg), d)]
       ELSE [st EXCEPT !.current_doc = Append(@, d)]

RECURSIVE MergeLoop(_, _, _, _)
MergeLoop(seg, splits, n, cfg) ==
    IF n = 0 THEN [docs |-> <<>>, current_doc |-> <<>>]
    ELSE MergeSplit(seg, MergeLoop(seg, splits, n - 1, cfg), splits[n], cfg)

\* _merge_splits(splits, ""): the chunks made of runs of consecutive pieces.
MergeSplits(seg, splits, cfg) ==
    LET st == MergeLoop(seg, splits, Len(splits), cfg)
    IN IF st.current_doc = <<>> THEN st.docs
       ELSE st.docs \o JoinDocs(seg, st.current_doc)

\* The first separator that is "" or is found in seg[lo..hi]; the last when
\* there is none.
SeparatorIndex(seg, lo, hi, separators) ==
    LET found == {i \in 1..Len(separators) :
                     separators[i] = <<>> \/ FindAll(seg, lo, hi, separators[i]) # <<>>}
    IN IF found = {} THEN Len(separators)
       ELSE CHOOSE i \in found : \A j \in found : i <= j

RECURSIVE SplitText(_, _, _, _, _)
RECURSIVE SplitLoop(_, _, _, _, _)

\* The loop of _split_text over the first n pieces: the chunks so far and the
\* pieces shorter than chunk_size waiting to be merged.
SplitLoop(seg, splits, n, new_separators, cfg) ==
    IF n = 0 THEN [final_chunks |-> <<>>, good_splits |-> <<>>]
    ELSE LET st == SplitLoop(seg, splits, n - 1, new_separators, cfg)
             s == splits[n]
         IN IF SliceLen(s) < cfg.chunk_size
            THEN [st EXCEPT !.good_splits = Append(@, s)]
            ELSE [final_chunks |->
                      st.final_chunks
                      \o (IF st.good_splits = <<>> THEN <<>>
                          ELSE MergeSplits(seg, st.good_splits, cfg))
                      \o (IF new_separators = <<>>
                          THEN <<[start |-> s.start, stop |-> s.stop,
                                  text |-> SliceText(seg, s)]>>
                          ELSE SplitText(seg, s.start, s.stop, new_separators, cfg)),
                  good_splits |-> <<>>]

\* _split_text(text, separators) on seg[lo..hi].
SplitText(seg, lo, hi, separators, cfg) ==
    LET i == SeparatorIndex(seg, lo, hi, separators)
        separator == separators[i]
        new_separators ==
            IF separator # <<>> /\ FindAll(seg, lo, hi, separator) # <<>>
            THEN SubSeq(separators, i + 1, Len(separators)) ELSE <<>>
        splits == SplitTextWithRegex(seg, lo, hi, separator)
        st == SplitLoop(seg, splits, Len(splits), new_separators, cfg)
    IN st.final_chunks
       \o (IF st.good_splits = <<>> THEN <<>>
           ELSE MergeSplits(seg, st.good_splits, cfg))

\* char_splitter.split_text(text): the chunks of one stage-A segment, each with
\* the slice of the segment it was cut from.
CharSplitText(seg, cfg) == SplitText(seg, 1, Len(seg), Separators, cfg)

\* ------------------------------------ ingestion/pipeline.py: the ingestion run

\* Lines one markdown text is made of.
MaxLines == 3

\* What the ingestion run leaves alone: the query service but the index on disk.
service_vars == <<_jobs, _jobs_lock, clock, ticks, submits, streams, syncs, vs_cached, cache_vars, caller_vars,
                  pc, h_req, h_job_id, h_now, h_call, h_docs, h_tokens, h_events,
                  h_error, response, issued, consumes, rejections>>

\* A path sorted(html_root.rglob("*.htm*")) yields: its name, the exception
\* path.read_text raises on it (a directory of that name, a file without read
\* permission) or "", the exception its conversion raises (markdownify's
\* recursion on deeply nested tags) or "", and the markdown markdownify makes of
\* its cleaned soup.
HtmlFile(path, name, read_error, convert_error, markdown) ==
    [path |-> path, name |-> name, read_error |-> read_error,
     convert_error |-> convert_error, markdown |-> markdown]

\* The lines of the markdown texts: blank, headings of the three levels, words.
MarkdownLines ==
    { <<>>, <<"#", " ", "a">>, <<"#", " ", "b">>, <<"#", "#", " ", "c">>, <<"#", "#", "#", " ", "d">>, <<"a", "b">>, <<"a", " ", "b", " ", "c">>, <<"a", "b", "c", "d", "e", "f", "g", "h">> }

\* The markdown texts of at most MaxLines lines.
Markdowns ==
    { JoinSeqs(ls, <<"\n">>) :
        ls \in UNION { [1..n -> MarkdownLines] : n \in 1..MaxLines } }

\* A document of 50 characters.
FiftyCharacters == Rep("a", 24) \o <<" ">> \o Rep("b", 25)

\* Files under html_root, in the order sorted() gives their paths: two pages of
\* the same name in two directories, a directory named like a page, a page that
\* converts to nothing, a page the process may not read, a page nested too deep
\* to convert.
FilePool ==
    << HtmlFile("html/a/rsi.html", "rsi.html", "", "", 
                <<"#", " ", "a", "\n", "a", "b", "\n", "#", "#", " ", "c", "\n", "a", " ", "b", " ", "c">>),
       HtmlFile("html/archive.html", "archive.html", "IsADirectoryError", "", <<>>),
       HtmlFile("html/b/rsi.html", "rsi.html", "", "", <<"a", "b", "\n", "\n", "\n", "\n", "a", "b">>),
       HtmlFile("html/empty.html", "empty.html", "", "", <<"\n", " ", "\n">>),
       HtmlFile("html/locked.html", "locked.html", "PermissionError", "", <<>>),
       HtmlFile("html/nested.html", "nested.html", "", "RecursionError", <<>>) >>

\* The exceptions loading one file raises.
LoadErrors == {"IsADirectoryError", "PermissionError", "RecursionError"}

\* The corpora: one page of any markdown text, the 50-character document, and
\* up to two files of the pool.
Corpora ==
    { <<HtmlFile("html/page.html", "page.html", "", "", m)>> :
        m \in Markdowns \cup {FiftyCharacters} }
    \cup { <<>> }
    \cup { <<FilePool[i]>> : i \in 1..Len(FilePool) }
    \cup { <<FilePool[p[1]], FilePool[p[2]]>> :
             p \in {q \in (1..Len(FilePool)) \X (1..Len(FilePool)) : q[1] < q[2]} }

\* search.config.Settings' defaults: chunk_size 800, chunk_overlap 120.
DefaultSettings == [chunk_size |-> 800, chunk_overlap |-> 120]

\* Configured chunk sizes and overlaps (CHUNK_SIZE, CHUNK_OVERLAP in the
\* environment), and the defaults.
Configs ==
    { [chunk_size |-> 4, chunk_overlap |-> 2],
      [chunk_size |-> 8, chunk_overlap |-> 2],
      DefaultSettings }

\* _load_url_map(): url_map.json
UrlMap ==
    [name \in {"rsi.html"} |-> [url |-> "https://deriv.com/rsi", source |-> "deriv"]]

\* The Document load_html_documents appends for a path.
LoadedDocument(file, text) ==
    Document(text,
             [source |-> file.path, filename |-> file.name,
              source_url |-> IF file.name \in DOMAIN UrlMap
                             THEN UrlMap[file.name].url ELSE "",
              format |-> "html->markdown"])

\* The chunks of the s-th stage-A segment of docs[d]: beside each chunk's text and
\* metadata ({**doc.metadata, **hc.metadata}), where it was cut from.
SubChunks(docs, d, header_chunks, s, cfg) ==
    LET pieces == CharSplitText(header_chunks[s].content, cfg)
    IN [k \in 1..Len(pieces) |->
           [page_content |-> pieces[k].text,
            metadata |-> DictUpdate(docs[d].metadata, header_chunks[s].metadata),
            doc |-> d, segment |-> s,
            start |-> pieces[k].start, stop |-> pieces[k].stop]]

RECURSIVE SplitDocuments(_, _, _, _, _)
\* char_splitter.split_documents(header_chunks), over the first s segments.
SplitDocuments(docs, d, header_chunks, s, cfg) ==
    IF s = 0 THEN <<>>
    ELSE SplitDocuments(docs, d, header_chunks, s - 1, cfg)
         \o SubChunks(docs, d, header_chunks, s, cfg)

RECURSIVE ChunkDocumentsUpto(_, _, _)
\* The loop of chunk_documents over the first d documents.
ChunkDocumentsUpto(docs, d, cfg) ==
    IF d = 0 THEN <<>>
    ELSE LET header_chunks == MdSplitText(docs[d].page_content)
         IN ChunkDocumentsUpto(docs, d - 1, cfg)
            \o SplitDocuments(docs, d, header_chunks, Len(header_chunks), cfg)

\* chunk_documents(docs)
ChunkDocuments(docs, cfg) == ChunkDocumentsUpto(docs, Len(docs), cfg)

\* What vectorstore.save_local stores: the chunks of the index.
IndexOf(chunks) ==
    [k \in 1..Len(chunks) |->
        [page_content |-> chunks[k].page_content, metadata |-> chunks[k].metadata]]

\* chunk_counts[fn]: the chunks whose metadata carries the filename fn.
ChunkCount(chunks, fn) ==
    Cardinality({k \in 1..Len(chunks) : DictGet(chunks[k].metadata, "filename", "") = fn})

\* The records save_doc_metadata writes to documents.json.
DocumentRecords(docs, chunks) ==
    [d \in 1..Len(docs) |->
        LET fn == docs[d].metadata.filename
        IN [filename |-> fn,
            source_url |-> IF fn \in DOMAIN UrlMap THEN UrlMap[fn].url
                           ELSE DictGet(docs[d].metadata, "source_url", ""),
            source_category |-> IF fn \in DOMAIN UrlMap THEN UrlMap[fn].source ELSE "",
            char_count |-> Len(docs[d].page_content),
            chunk_count |-> ChunkCount(chunks, fn)]]

\* Nothing persisted, and the generation a run over one page persists.
NothingPersisted == [index |-> {}, documents_json |-> {}]
PersistedDocs == <<LoadedDocument(HtmlFile("html/old.html", "old.html", "", "", <<>>),
                                <<"#", " ", "a", "\n", "a", "b">>)>>
PersistedGeneration ==
    [index |-> Some(IndexOf(ChunkDocuments(PersistedDocs, DefaultSettings))),
     documents_json |->
         Some(DocumentRecords(PersistedDocs, ChunkDocuments(PersistedDocs, DefaultSettings)))]

\* run() with save_doc_metadata ahead of build_vectorstore.
RunOrder_MetadataFirst ==
    <<"load", "chunk", "save_doc_metadata", "embed", "save_local", "done">>

\* The steps of run(): load_html_documents, chunk_documents, build_vectorstore
\* (FAISS.from_documents, which embeds, then save_local), save_doc_metadata.
RunOrder ==
    <<"load", "chunk", "embed", "save_local", "save_doc_metadata", "done">>

\* The step after `step`.
StepAfter(step) ==
    LET i == CHOOSE k \in 1..Len(RunOrder) : RunOrder[k] = step
    IN RunOrder[i + 1]

\* python -m search.ingestion: run() starts, load_html_documents at its first path.
Run ==
    /\ i_pc = "idle"
    /\ i_pc' = RunOrder[1]
    /\ i_file' = 1
    /\ UNCHANGED <<html_files, settings, i_docs, i_chunks, i_error, persisted>>
    /\ UNCHANGED <<service_vars, index_on_disk, composer_vars, format_vars>>

\* One pass of load_html_documents' loop: read the file and convert it, an
\* exception of either leaving the loop, the function and run(); skip it when no
\* text is left, else append its Document.
LoadHtmlFile ==
    /\ i_pc = "load"
    /\ i_file <= Len(html_files)
    /\ LET file == html_files[i_file]
           text == HtmlToCleanMarkdown(file.markdown)
       IN  IF file.read_error # "" \/ file.convert_error # ""
           THEN /\ i_pc' = "failed"
                /\ i_error' = IF file.read_error # "" THEN file.read_error
                              ELSE file.convert_error
                /\ UNCHANGED <<i_file, i_docs>>
           ELSE /\ i_docs' = IF text = <<>> THEN i_docs
                             ELSE Append(i_docs, LoadedDocument(file, text))
                /\ i_file' = i_file + 1
                /\ UNCHANGED <<i_pc, i_error>>
    /\ UNCHANGED <<html_files, settings, i_chunks, persisted>>
    /\ UNCHANGED <<service_vars, index_on_disk, composer_vars, format_vars>>

\* load_html_documents returns docs.
LoadHtmlDocumentsReturn ==
    /\ i_pc = "load"
    /\ i_file > Len(html_files)
    /\ i_pc' = StepAfter("load")
    /\ UNCHANGED <<html_files, settings, i_file, i_docs, i_chunks, i_error, persisted>>
    /\ UNCHANGED <<service_vars, index_on_disk, composer_vars, format_vars>>

\* chunks = chunk_documents(docs)
RunChunkDocuments ==
    /\ i_pc = "chunk"
    /\ i_chunks' = ChunkDocuments(i_docs, settings)
    /\ i_pc' = StepAfter("chunk")
    /\ UNCHANGED <<html_files, settings, i_file, i_docs, i_error, persisted>>
    /\ UNCHANGED <<service_vars, index_on_disk, composer_vars, format_vars>>

\* build_vectorstore: FAISS.from_documents(chunks, embeddings) embeds the chunks,
\* or the embedding provider fails and its exception leaves run().
BuildVectorstoreEmbed ==
    /\ i_pc = "embed"
    /\ \E embedded \in BOOLEAN :
        IF embedded
        THEN i_pc' = StepAfter("embed") /\ UNCHANGED i_error
        ELSE i_pc' = "failed" /\ i_error' = "EmbeddingError"
    /\ UNCHANGED <<html_files, settings, i_file, i_docs, i_chunks, persisted>>
    /\ UNCHANGED <<service_vars, index_on_disk, composer_vars, format_vars>>

\* build_vectorstore: index_path.mkdir; vectorstore.save_local(str(index_path))
BuildVectorstoreSaveLocal ==
    /\ i_pc = "save_local"
    /\ persisted' = [persisted EXCEPT !.index = Some(IndexOf(i_chunks))]
    /\ index_on_disk' = TRUE
    /\ i_pc' = StepAfter("save_local")
    /\ UNCHANGED <<html_files, settings, i_file, i_docs, i_chunks, i_error>>
    /\ UNCHANGED <<service_vars, composer_vars, format_vars>>

\* save_doc_metadata(docs, chunks): documents.json written
SaveDocMetadata ==
    /\ i_pc = "save_doc_metadata"
    /\ persisted' = [persisted EXCEPT
                        !.documents_json = Some(DocumentRecords(i_docs, i_chunks))]
    /\ i_pc' = StepAfter("save_doc_metadata")
    /\ UNCHANGED <<html_files, settings, i_file, i_docs, i_chunks, i_error>>
    /\ UNCHANGED <<service_vars, index_on_disk, composer_vars, format_vars>>

\* A whole ingestion run over one page, seen from the query service: it persists
\* the index (vectorstore.save_local(index_path)) and documents.json.
IngestionRun ==
    /\ ~index_on_disk
    /\ index_on_disk' = TRUE
    /\ persisted' = PersistedGeneration
    /\ UNCHANGED <<_jobs, _jobs_lock, vs_cached, cache_vars, caller_vars, pc, h_req, h_job_id, h_now,
                   h_call, h_docs, h_tokens, h_events, h_error, response>>
    /\ UNCHANGED <<time_vars, count_vars, hist_vars>>
    /\ UNCHANGED <<composer_vars, format_vars, html_files, settings, i_pc, i_file,
                   i_docs, i_chunks, i_error>>

\* ------------------------------------------------------ the specifications

\* The composer when prompt.py has been imported: the library is loaded.
InitComposer(libraries) ==
    /\ PROMPT_SECTIONS \in libraries
    /\ p_args = None
    /\ p_result = None
    /\ p_prev = None

\* _format_docs about to be called on one of `lists`.
InitFormat(lists) ==
    /\ f_docs \in lists
    /\ f_context = None

\* An ingestion run about to start over the files of one of `corpora`; on disk
\* nothing, or the generation an earlier run persisted.
InitIngest(corpora, configs) ==
    /\ html_files \in corpora
    /\ settings \in configs
    /\ i_pc = "idle"
    /\ i_file = 1
    /\ i_docs = <<>>
    /\ i_chunks = <<>>
    /\ i_error = ""
    /\ persisted = IF index_on_disk THEN PersistedGeneration ELSE NothingPersisted

\* The query service started, its library loaded, no ingestion under way.
Init ==
    /\ InitService
    /\ InitComposer({Library1})
    /\ InitFormat({<<>>})
    /\ InitIngest({<<>>}, {DefaultSettings})

\* The steps of POST /query.
SubmitStep(h) ==
    \/ SubmitQuery(h)
    \/ CleanupAcquire(h)
    \/ CleanupSweep(h)
    \/ CreateJobAcquire(h)
    \/ CreateJobInsert(h)

\* The job registry over time: submissions, sweeps and streams, whose generation
\* ends or fails (the tokens in between are left to SpecStream).
Next ==
    \/ Tick
    \/ \E h \in Handlers :
        \/ SubmitStep(h)
        \/ Stream(h)
        \/ StreamStart(h)
        \/ StreamEnd(h)
        \/ StreamGenerationFails(h)

Spec == Init /\ [][Next]_vars

\* The streams token by token, at a fixed time.
NextStream ==
    \E h \in Handlers :
        \/ SubmitStep(h)
        \/ Stream(h)
        \/ StreamStart(h)
        \/ StreamToken(h)
        \/ StreamEnd(h)
        \/ StreamGenerationFails(h)

SpecStream == Init /\ [][NextStream]_vars

\* POST /query/sync calls among submissions, and ingestion runs between them.
NextSync ==
    \/ IngestionRun
    \/ \E h \in Handlers :
        \/ QuerySync(h)
        \/ SubmitStep(h)

SpecSync == Init /\ [][NextSync]_vars

\* The prompt composer called with any arguments, against any library.
InitPrompt ==
    /\ InitService
    /\ InitComposer(Libraries)
    /\ InitFormat({<<>>})
    /\ InitIngest({<<>>}, {DefaultSettings})

NextPrompt ==
    \/ BuildSystemPromptCall
    \/ BuildSystemPromptAgain
    \/ ReloadSections

SpecPrompt == InitPrompt /\ [][NextPrompt]_vars


\* Context assembly called on any list of retrieved documents.
InitFormatDocs ==
    /\ InitService
    /\ InitComposer({Library1})
    /\ InitFormat(DocLists)
    /\ InitIngest({<<>>}, {DefaultSettings})

NextFormat ==
    FormatDocsCall

SpecFormat == InitFormatDocs /\ [][NextFormat]_vars

\* One ingestion run over any corpus, under any configuration.
InitIngestRun ==
    /\ InitService
    /\ InitComposer({Library1})
    /\ InitFormat({<<>>})
    /\ InitIngest(Corpora, Configs)

NextIngest ==
    \/ Run
    \/ LoadHtmlFile
    \/ LoadHtmlDocumentsReturn
    \/ RunChunkDocuments
    \/ BuildVectorstoreEmbed
    \/ BuildVectorstoreSaveLocal
    \/ SaveDocMetadata

SpecIngest == InitIngestRun /\ [][NextIngest]_vars

\* The backend's worker threads calling learn_from_trade, and ingestion runs
\* between their steps.
NextLearn ==
    \/ IngestionRun
    \/ \E c \in Callers :
        \/ LearnFromTrade(c)
        \/ GetVectorstoreLookup(c)
        \/ GetVectorstoreLoad(c)
        \/ LearnAnswer(c)

SpecLearn == Init /\ [][NextLearn]_vars

\* The backend's transaction sync, one request after another.
NextTransactions ==
    \/ SyncTransactions
    \/ UpsertTransaction
    \/ Commit

SpecTransactions == Init /\ [][NextTransactions]_vars

\* One build_system_prompt call block by block, and reloads of the library by
\* another thread at any of its moments.
NextReload ==
    \/ BuildStart
    \/ BuildBlock
    \/ BuildReturn
    \/ ReloadSections

SpecReload == InitPrompt /\ [][NextReload]_vars

\* All the endpoints of the query service together, at a fixed time: up to
\* MaxStreams stream and sync calls in all, the streams' generation ending or
\* failing (the tokens in between are left to SpecStream).
NextServe ==
    \E h \in Handlers :
        \/ SubmitStep(h)
        \/ (streams + syncs < MaxStreams /\ Stream(h))
        \/ (streams + syncs < MaxStreams /\ QuerySync(h))
        \/ StreamStart(h)
        \/ StreamEnd(h)
        \/ StreamGenerationFails(h)

SpecServe == Init /\ [][NextServe]_vars

\* The prompt built from a request's overrides, against a library with or
\* without braces in its examples' texts.
InitOverrides ==
    /\ InitService
    /\ InitComposer({Library1, Library3})
    /\ InitFormat({<<>>})
    /\ InitIngest({<<>>}, {DefaultSettings})

NextOverrides ==
    BuildPrompt

SpecOverrides == InitOverrides /\ [][NextOverrides]_vars

\* ------------------------------------------------------------ the claims

\* The sweep step of handler h, the `with` block of _cleanup_expired.
SweepStep(h) == pc[h] = "cleanup_locked" /\ pc'[h] = "create_acquire"

\* The ids of the jobs _get_job has returned.
ConsumedIds == {consumes[i].job_id : i \in 1..Len(consumes)}

\* C1: for every job_id, at most one consume call ever returns the job; every
\* other call for that id gets not-found.
C1_AtMostOneConsumePerJobId ==
    \A i, j \in 1..Len(consumes) :
        consumes[i].job_id = consumes[j].job_id => i = j

\* C2: a GET /stream/{job_id} made when the job is older than the TTL opens no
\* stream (it is answered 410), swept or not.
C2_NoStreamAfterTtl ==
    [][\A h \in Handlers :
          (pc[h] # "s_start" /\ pc'[h] = "s_start")
              => clock - _jobs[h_job_id'[h]].created_at <= 300]_vars

\* The answer the specification gives for a missing index or an empty retrieval.
C3_Expected ==
    [difficulty |-> "unknown", answer |-> "INSUFFICIENT_CONTEXT",
     confidence |-> "low", sources |-> <<>>]

\* Whether handler h's pipeline call found no index, or retrieved no chunk.
C3_ShortCircuit(h) ==
    \/ h_docs[h] = [stage |-> "no_index"]
    \/ h_docs[h] = [stage |-> "retrieved", docs |-> <<>>]

\* C3: with the index missing, or no chunk retrieved, answer_question returns
\* exactly the default answer and answer_question_stream yields its JSON; neither
\* raises.
C3_DefaultAnswerNeverRaises ==
    \A h \in Handlers :
        /\ (pc[h] = "sync_done" /\ C3_ShortCircuit(h))
              => /\ h_error[h] = ""
                 /\ response[h] = [status |-> 200, body |-> C3_Expected]
        /\ (pc[h] = "stream_done" /\ C3_ShortCircuit(h))
              => /\ h_error[h] = ""
                 /\ h_tokens[h] =
                      <<JsonDumpsKeys(C3_Expected,
                            <<"difficulty", "answer", "confidence", "sources">>)>>

\* C4: every _create_job returns a job_id that no earlier call returned (so that
\* its insert overwrites no entry).
C4_JobIdsNeverReissued ==
    \A i, j \in 1..Len(issued) : issued[i].job_id = issued[j].job_id => i = j

\* C5: a successful consume returns the request of the submit call that returned
\* the job_id, and the stream calls the pipeline with that request's question,
\* trade_analysis and overrides.
C5_ConsumeReturnsSubmittedRequest ==
    /\ \A c \in 1..Len(consumes) : \A i \in 1..consumes[c].n_issued :
          issued[i].job_id = consumes[c].job_id
              => consumes[c].request = issued[i].request
    /\ \A h \in Handlers : pc[h] \in {"s_start", "s_generate"} =>
          /\ h_call[h].question = h_req[h].question
          /\ h_call[h].trade_analysis = h_req[h].trade_analysis
          /\ IF h_req[h].prompt_overrides = {}
             THEN /\ h_call[h].difficulty = {}
                  /\ h_call[h].sections = {}
                  /\ h_call[h].include_examples = TRUE
                  /\ h_call[h].extra_rules = {}
                  /\ h_call[h].extra_instructions = {}
             ELSE \E o \in h_req[h].prompt_overrides :
                  /\ h_call[h].difficulty = o.difficulty
                  /\ h_call[h].sections = o.sections
                  /\ h_call[h].include_examples = o.include_examples
                  /\ h_call[h].extra_rules = o.extra_rules
                  /\ h_call[h].extra_instructions = o.extra_instructions

\* C6: after a sweep, no job with created_at + 300 < now (the sweep's reading)
\* is left, consumed or not, and every other job is left as it was.
C6_SweepRemovesExactlyTheExpired ==
    [][\A h \in Handlers : SweepStep(h) =>
          /\ DOMAIN _jobs' \subseteq DOMAIN _jobs
          /\ \A k \in DOMAIN _jobs :
                IF _jobs[k].created_at + 300 < h_now[h]
                THEN k \notin DOMAIN _jobs'
                ELSE k \in DOMAIN _jobs' /\ _jobs'[k] = _jobs[k]]_vars

\* A sweep has just removed a job that nobody had consumed.
C6_Witness ==
    \E h \in Handlers :
        /\ pc[h] = "create_acquire"
        /\ \E i \in 1..Len(issued) :
              /\ issued[i].job_id \notin DOMAIN _jobs
              /\ issued[i].job_id \notin ConsumedIds

\* C7 as claimed: the sweep never deletes a job whose consumed flag is true.
C7_SweepKeepsConsumed ==
    [][\A h \in Handlers : SweepStep(h) =>
          \A k \in DOMAIN _jobs : _jobs[k].consumed => k \in DOMAIN _jobs']_vars

\* C7, amended: the sweep deletes a consumed job exactly when the job is older
\* than the TTL, as it does an unconsumed one; the consumed flag protects no job.
C7_SweepDeletesConsumedByAge ==
    [][\A h \in Handlers : SweepStep(h) =>
          \A k \in DOMAIN _jobs : _jobs[k].consumed =>
              (k \notin DOMAIN _jobs' <=> h_now[h] - _jobs[k].created_at > 300)]_vars

\* A sweep has just removed a job that had been consumed.
C7_Witness ==
    \E h \in Handlers :
        /\ pc[h] = "create_acquire"
        /\ \E id \in ConsumedIds : id \notin DOMAIN _jobs

\* C8: once a job_id has been consumed, nothing makes it consumable again: its
\* entry, while there is one, stays consumed.
C8_ConsumedStaysConsumed ==
    \A id \in ConsumedIds : id \in DOMAIN _jobs => _jobs[id].consumed

\* The frames of the tokens the generation has produced for handler h, in order.
C9_Framed(h) == [i \in 1..Len(h_tokens[h]) |-> "data: " \o h_tokens[h][i] \o "\n\n"]

\* C9 as claimed: every stream opened for a consumed job ends as the tokens in
\* generation order followed by one [DONE] event.
C9_StreamEndsWithDone ==
    \A h \in Handlers :
        (pc[h] = "stream_done" /\ response[h].status = 200)
            => h_events[h] = C9_Framed(h) \o <<"data: [DONE]\n\n">>

\* C9, amended: the events are the frames of the tokens in generation order; the
\* [DONE] event is appended, once and last, exactly when the generation ended
\* without an exception, and a stream that an exception ends has none.
C9_TokensInOrderDoneOnNormalEnd ==
    \A h \in Handlers :
        /\ pc[h] \in {"s_start", "s_generate"} => h_events[h] = C9_Framed(h)
        /\ (pc[h] = "stream_done" /\ response[h].status = 200) =>
              h_events[h] = IF h_error[h] = ""
                            THEN C9_Framed(h) \o <<"data: [DONE]\n\n">>
                            ELSE C9_Framed(h)

\* A stream of two tokens has ended with [DONE].
C9_Witness ==
    \E h \in Handlers :
        /\ pc[h] = "stream_done"
        /\ h_error[h] = ""
        /\ Len(h_tokens[h]) = 2
        /\ h_tokens[h][1] # h_tokens[h][2]
        /\ Len(h_events[h]) = 3

\* C10: a rejected GET /stream/{job_id} gets the same response (410 and the same
\* detail) whether the job_id was never issued, was removed by expiry, or was
\* already consumed.
C10_RejectionsIndistinguishable ==
    /\ \A r \in rejections :
          r.response = [status |-> 410,
                        detail |-> "Stream not found or already consumed. Submit a new /query."]
    /\ \A r1, r2 \in rejections : r1.response = r2.response

\* GETs have been rejected for each of the three reasons.
C10_Witness ==
    {r.reason : r \in rejections} = {"never_issued", "expired", "consumed"}

\* ----------------------------------------------- the claims on the composer

\* Whether the last build_system_prompt call appended block n's part.
Appears(n) == \E i \in 1..Len(p_result.names) : p_result.names[i] = n

\* The part block n appended.
PartOf(n) == p_result.parts[CHOOSE i \in 1..Len(p_result.names) : p_result.names[i] = n]

\* Whether `sections` is None or names n.
Named(n) ==
    \/ p_args.sections = {}
    \/ \E xs \in p_args.sections : \E i \in 1..Len(xs) : xs[i] = n

\* The value of an Optional[str] argument, "" when it is None.
StrOf(opt) == IF opt = {} THEN "" ELSE CHOOSE v \in opt : TRUE

\* The value of an Optional[list] argument, [] when it is None.
ListOf(opt) == IF opt = {} THEN <<>> ELSE CHOOSE v \in opt : TRUE

\* C11 as claimed: each of the ten sections appears in the composed text if and
\* only if `sections` is None or names it.
C11_SectionIffNamed ==
    p_result # None =>
        \A n \in {"role", "inputs", "reasoning", "output_schema", "response_depth",
                  "tone", "engagement", "rules", "examples", "extra_instructions"} :
            Appears(n) <=> Named(n)

\* C11, amended: role, inputs, reasoning, output_schema, response_depth, tone and
\* rules appear iff `sections` is None or names them; engagement needs a
\* non-empty engagement list in the library besides; examples need
\* include_examples and an example left by the difficulty filter besides;
\* extra_instructions appears iff the argument is a non-empty string, whatever
\* `sections` is. sections=["role","rules"] without extra_instructions yields
\* the role and the rules content only.
C11_SectionIffNamedAndEnabled ==
    p_result # None =>
        LET lib == p_result.library
            d == StrOf(p_args.difficulty)
        IN  /\ \A n \in {"role", "inputs", "reasoning", "output_schema",
                         "response_depth", "tone", "rules"} : Appears(n) <=> Named(n)
            /\ Appears("role") => PartOf("role") = <<lib.role>>
            /\ Appears("inputs") => PartOf("inputs") = <<lib.inputs>>
            /\ Appears("output_schema") => PartOf("output_schema") = lib.output_schema
            /\ Appears("engagement") <=>
                  (Named("engagement") /\ "engagement" \in DOMAIN lib
                     /\ lib.engagement # <<>>)
            /\ Appears("examples") <=>
                  /\ Named("examples")
                  /\ p_args.include_examples
                  /\ \E i \in 1..Len(lib.examples) :
                        d = "" \/ lib.examples[i].difficulty = d
            /\ Appears("extra_instructions") <=> StrOf(p_args.extra_instructions) # ""
            /\ (p_args.sections = {<<"role", "rules">>}
                  /\ StrOf(p_args.extra_instructions) = "")
                  => /\ p_result.names = <<"role", "rules">>
                     /\ p_result.text = <<lib.role \o "\n\n" \o PartOf("rules")[1]>>

\* sections=["role","rules"] with extra_instructions and examples enabled: the
\* text has the role, the rules and the extra instructions.
C11_Witness ==
    /\ p_result # None
    /\ p_args.sections = {<<"role", "rules">>}
    /\ p_args.include_examples
    /\ p_result.names = <<"role", "rules", "extra_instructions">>

\* The position of section n in the fixed order.
C12_Rank(n) ==
    CHOOSE k \in 1..10 :
        <<"role", "inputs", "reasoning", "output_schema", "response_depth", "tone",
          "engagement", "rules", "examples", "extra_instructions">>[k] = n

\* `sections` with each name once, in alphabetical order of a fixed list.
C12_Sorted(xs) ==
    SelectSeq(<<"engagement", "examples", "extra_instructions", "inputs",
                "output_schema", "reasoning", "response_depth", "role", "rules",
                "tone">>,
              LAMBDA n : \E i \in 1..Len(xs) : xs[i] = n)

\* C12: the included sections appear in the fixed order, whatever the order or
\* repetition of the names in `sections`, and two calls with equal arguments
\* against the same library return equal text.
C12_FixedOrderDeterministic ==
    p_result # None =>
        /\ \A i, j \in 1..Len(p_result.names) :
              i < j => C12_Rank(p_result.names[i]) < C12_Rank(p_result.names[j])
        /\ \A xs \in p_args.sections :
              p_result.text =
                 BuildSystemPrompt(p_result.library,
                                   [p_args EXCEPT !.sections = {C12_Sorted(xs)}]).text
        /\ (p_prev # None /\ p_prev.args = p_args
              /\ p_prev.result.library = p_result.library)
              => p_prev.result.text = p_result.text

\* The same call made twice with sections=["rules","role","rules"]: the role
\* comes before the rules.
C12_Witness ==
    /\ p_result # None
    /\ p_prev # None
    /\ p_prev.args = p_args
    /\ p_args.sections = {<<"rules", "role", "rules">>}
    /\ p_result.names[1] = "role"
    /\ p_result.names[2] = "rules"

\* The response-depth part with the rows `rows` of the library's table.
C13_Depth(rows) ==
    <<"## Response-depth guidelines\n\n"
      \o "| Difficulty | Target length | Style |\n"
      \o "|------------|---------------|-------|\n"
      \o JoinStrings([i \in 1..Len(rows) |->
            "| " \o rows[i].key \o " | " \o rows[i].target_length \o " | "
            \o rows[i].style \o " |"], "\n")>>

\* The examples part with the examples `exs`.
C13_Examples(exs) == JoinTexts(<<Str("## Few-shot examples")>> \o ExamplesParts(exs), "\n")

C14_Numbered(rules) ==
    <<"## Rules\n" \o JoinStrings([i \in 1..Len(rules) |->
                          ToString(i) \o ". " \o rules[i]], "\n")>>

\* C14: the rules section lists the base rules in library order, then the extra
\* rules in their order, numbered from 1; the library's rule list is unchanged by
\* the call, so that a later call without extra_rules lists the base rules only.
C14_ExtraRulesAppendLibraryUnchanged ==
    p_result # None =>
        /\ Appears("rules") =>
              PartOf("rules") =
                 C14_Numbered(p_result.library.rules \o ListOf(p_args.extra_rules))
        /\ PROMPT_SECTIONS = p_result.library
        /\ (p_prev # None /\ p_args.extra_rules = {} /\ Appears("rules"))
              => PartOf("rules") = C14_Numbered(p_prev.result.library.rules)

\* A call with two extra rules, then the same call without them.
C14_Witness ==
    /\ p_result # None
    /\ p_prev # None
    /\ p_prev.args.extra_rules = {<<"Respond in Spanish.", "Be brief.">>}
    /\ p_args.extra_rules = {}
    /\ Appears("rules")
    /\ \E i \in 1..Len(p_prev.result.names) : p_prev.result.names[i] = "rules"

RECURSIVE C15_Doubled(_)
\* `text` with each brace character written twice.
C15_Doubled(text) ==
    IF text = <<>> THEN <<>>
    ELSE (IF text[1] \in {"{", "}"} THEN <<text[1], text[1]>> ELSE <<text[1]>>)
         \o C15_Doubled(Tail(text))

RECURSIVE C15_ExampleLines(_, _)
\* The lines of the examples `exs`, their JSON doubled or as it is.
C15_ExampleLines(exs, doubled) ==
    IF exs = <<>> THEN <<>>
    ELSE <<Str("\n### Example - " \o exs[1].label),
           Str("TRADE_ANALYSIS: " \o exs[1].trade_analysis),
           Str("QUESTION: " \o exs[1].question),
           Str("CONTEXT:\n" \o exs[1].context),
           IF doubled THEN C15_Doubled(JsonDumpsText(exs[1].expected_output))
           ELSE JsonDumpsText(exs[1].expected_output)>>
         \o C15_ExampleLines(Tail(exs), doubled)

\* C15: every brace of an example's serialized expected_output is doubled in the
\* composed text, and the template substitution gives the example JSON back.
C15_EscapeThenSubstituteIsIdentity ==
    (p_result # None /\ Appears("examples")) =>
        LET lib == p_result.library
            d == StrOf(p_args.difficulty)
            exs == IF d = "" THEN lib.examples
                   ELSE SelectSeq(lib.examples, LAMBDA e : e.difficulty = d)
        IN  /\ PartOf("examples") =
                  JoinTexts(<<Str("## Few-shot examples")>> \o C15_ExampleLines(exs, TRUE),
                            "\n")
            /\ \A i \in 1..Len(exs) :
                  FormatText(C15_Doubled(JsonDumpsText(exs[i].expected_output)),
                             [format_instructions |-> FormatInstructions])
                     = [ok |-> TRUE, text |-> JsonDumpsText(exs[i].expected_output)]
            /\ p_result.names = <<"examples">> =>
                  p_result.system =
                     [ok |-> TRUE,
                      text |-> JoinTexts(<<Str("## Few-shot examples")>>
                                            \o C15_ExampleLines(exs, FALSE), "\n")]

\* A prompt of the examples alone, one of them with nested JSON objects.
C15_Witness ==
    /\ p_result # None
    /\ p_result.names = <<"examples">>
    /\ p_result.library = Library1
    /\ p_args.difficulty = {}
    /\ p_result.system.ok

\* ------------------------------------------ the claims on context assembly

\* The first 200 characters of a chunk's text.
C16_Prefix(doc) ==
    [i \in 1..(IF Len(doc.page_content) < 200 THEN Len(doc.page_content) ELSE 200)
        |-> doc.page_content[i]]

\* The positions in docs of the first chunk with each prefix, in ascending order.
C16_Kept(docs) ==
    SelectSeq([i \in 1..Len(docs) |-> i],
              LAMBDA i : \A j \in 1..(i - 1) : C16_Prefix(docs[j]) # C16_Prefix(docs[i]))

\* Whether `block` is a label line, perhaps a section line, then the chunk's text.
C16_BlockOf(block, doc) ==
    /\ Len(block) \in {Len(doc.page_content) + 1, Len(doc.page_content) + 2}
    /\ SubSeq(block, Len(block) - Len(doc.page_content) + 1, Len(block))
           = doc.page_content
    /\ block[1] \in {"[https://deriv.com/rsi]\n", "[macd.html]\n", "[call.html]\n",
                     "[unknown]\n", "[a.html]\n", "[https://deriv.com/b]\n"}

Chunked ==
    \/ i_pc \in {"embed", "save_local", "save_doc_metadata", "done"}
    \/ i_pc = "failed" /\ i_error = "EmbeddingError"

\* The positions in i_chunks of the chunks of document d.
ChunksOfDoc(d) == {k \in 1..Len(i_chunks) : i_chunks[k].doc = d}

\* The positions in i_chunks of the chunks of the s-th stage-A segment of document d.
ChunksOfSegment(d, s) ==
    {k \in 1..Len(i_chunks) : i_chunks[k].doc = d /\ i_chunks[k].segment = s}

\* C17 (as stated): for any document whose normalized text length is at most the
\* configured chunk size, chunk_documents produces exactly one chunk for it,
\* whatever headings the text contains.
C17_OneChunkPerShortDocument ==
    Chunked =>
        \A d \in 1..Len(i_docs) :
            Len(i_docs[d].page_content) <= settings.chunk_size
                => Cardinality(ChunksOfDoc(d)) = 1

\* C17 (amended): chunk_documents produces exactly one chunk, the segment's own
\* text, for every stage-A segment whose length is at most the configured chunk
\* size; so a document gets exactly one chunk when stage A makes one segment of
\* it and that segment is at most the chunk size long.
C17_OneChunkPerShortSegment ==
    Chunked =>
        \A d \in 1..Len(i_docs) :
            LET header_chunks == MdSplitText(i_docs[d].page_content)
            IN  /\ \A s \in 1..Len(header_chunks) :
                      Len(header_chunks[s].content) <= settings.chunk_size
                          => /\ Cardinality(ChunksOfSegment(d, s)) = 1
                             /\ \A k \in ChunksOfSegment(d, s) :
                                   i_chunks[k].page_content = header_chunks[s].content
                /\ (Len(header_chunks) = 1
                    /\ Len(header_chunks[1].content) <= settings.chunk_size)
                       => Cardinality(ChunksOfDoc(d)) = 1

\* A corpus of one 50-character document was ingested with chunk size 800:
\* documents.json holds one document with one chunk.
C17_Witness ==
    /\ i_pc = "done"
    /\ settings.chunk_size = 800
    /\ Len(i_docs) = 1
    /\ Len(i_docs[1].page_content) = 50
    /\ Len(i_chunks) = 1
    /\ \E records \in persisted.documents_json :
          /\ Len(records) = 1
          /\ records[1].char_count = 50
          /\ records[1].chunk_count = 1

\* The positions k such that chunks k and k + 1 come from the same segment.
ConsecutiveInSegment ==
    {k \in 1..(Len(i_chunks) - 1) :
        /\ i_chunks[k].doc = i_chunks[k + 1].doc
        /\ i_chunks[k].segment = i_chunks[k + 1].segment}

\* The last n characters of a text, and its first n.
C18_Last(text, n) == SubSeq(text, Len(text) - n + 1, Len(text))
C18_First(text, n) == SubSeq(text, 1, n)

\* C18 (as stated): for any two consecutive chunks produced from the same
\* stage-A segment, the last N characters of the first chunk equal the first N
\* characters of the second, where N is the configured chunk_overlap, and no
\* chunk is longer than the configured chunk_size.
C18_OverlapIsExactlyN ==
    Chunked =>
        /\ \A k \in ConsecutiveInSegment :
              /\ Len(i_chunks[k].page_content) >= settings.chunk_overlap
              /\ Len(i_chunks[k + 1].page_content) >= settings.chunk_overlap
              /\ C18_Last(i_chunks[k].page_content, settings.chunk_overlap)
                     = C18_First(i_chunks[k + 1].page_content, settings.chunk_overlap)
        /\ \A k \in 1..Len(i_chunks) :
              Len(i_chunks[k].page_content) <= settings.chunk_size

\* How many characters of the segment chunks k and k + 1 were both cut from.
C18_Shared(k) ==
    IF i_chunks[k].stop < i_chunks[k + 1].start THEN 0
    ELSE i_chunks[k].stop - i_chunks[k + 1].start + 1

\* C18 (amended): every chunk is a slice of its stage-A segment with the
\* whitespace at its ends stripped, and no chunk is longer than the configured
\* chunk_size; of two consecutive chunks of the same segment the second starts
\* and ends after the first does, and the slices they are cut from share at most
\* N characters, N the configured chunk_overlap.
C18_OverlapIsAtMostN ==
    Chunked =>
        /\ \A k \in ConsecutiveInSegment :
              /\ i_chunks[k].start < i_chunks[k + 1].start
              /\ i_chunks[k].stop < i_chunks[k + 1].stop
              /\ C18_Shared(k) <= settings.chunk_overlap
        /\ \A k \in 1..Len(i_chunks) :
              LET seg == MdSplitText(i_docs[i_chunks[k].doc].page_content)
                             [i_chunks[k].segment].content
                  slice == SubSeq(seg, i_chunks[k].start, i_chunks[k].stop)
              IN  /\ Len(i_chunks[k].page_content) <= settings.chunk_size
                  /\ Len(slice) <= settings.chunk_size
                  /\ \E i \in 1..Len(slice) :
                        /\ i_chunks[k].page_content
                               = SubSeq(slice, i, i + Len(i_chunks[k].page_content) - 1)
                        /\ \A j \in (1..(i - 1))
                                \cup ((i + Len(i_chunks[k].page_content))..Len(slice)) :
                              slice[j] \in {" ", "\n"}

\* One segment was cut into chunks of which two consecutive ones share exactly
\* N > 0 characters, both chunks ending in them and starting with them, and two
\* other consecutive ones share none.
C18_Witness ==
    /\ Chunked
    /\ settings.chunk_overlap > 0
    /\ \E k \in ConsecutiveInSegment :
          /\ C18_Shared(k) = settings.chunk_overlap
          /\ Len(i_chunks[k].page_content) >= settings.chunk_overlap
          /\ Len(i_chunks[k + 1].page_content) >= settings.chunk_overlap
          /\ C18_Last(i_chunks[k].page_content, settings.chunk_overlap)
                 = C18_First(i_chunks[k + 1].page_content, settings.chunk_overlap)
    /\ \E k \in ConsecutiveInSegment : C18_Shared(k) = 0

\* The files of the corpus that can be read and converted, and leave text.
C19_Loadable ==
    SelectSeq(html_files,
              LAMBDA f : /\ f.read_error = ""
                         /\ f.convert_error = ""
                         /\ HtmlToCleanMarkdown(f.markdown) # <<>>)

\* C19: in load_html_documents, a read or conversion failure on one file is
\* isolated: that file is skipped and every other file under the root is still
\* loaded, so the ingestion run is never aborted by a single file's load failure.
C19_LoadFailureIsolated ==
    /\ i_error \notin LoadErrors
    /\ i_pc \notin {"idle", "load"}
           => /\ Len(i_docs) = Len(C19_Loadable)
              /\ \A d \in 1..Len(i_docs) :
                    i_docs[d].metadata.source = C19_Loadable[d].path

\* C20: if the embedding capability fails during an ingestion run, the run
\* aborts and leaves persisted state unchanged: neither the serialized index nor
\* documents.json is written or modified by that run.
C20_EmbeddingFailureLeavesDiskUnchanged ==
    i_error = "EmbeddingError" =>
        /\ i_pc = "failed"
        /\ ~ENABLED NextIngest
        /\ persisted = IF index_on_disk THEN PersistedGeneration ELSE NothingPersisted

\* The embedding of the chunks of a run failed while an earlier generation was on
\* disk: that generation is still there.
C20_Witness ==
    /\ i_error = "EmbeddingError"
    /\ i_chunks # <<>>
    /\ persisted = PersistedGeneration
    /\ persisted.documents_json # {}

\* ------------------------------------------- the claims on documents.json

RECURSIVE C21_Sum(_, _)
\* The chunk_counts of the first n records, added up.
C21_Sum(records, n) ==
    IF n = 0 THEN 0 ELSE C21_Sum(records, n - 1) + records[n].chunk_count

\* C21: after a successful ingestion run, documents.json holds exactly one
\* record per loaded document, and each record's chunk_count equals the number
\* of chunks derived from that document, so the chunk_counts sum to the number
\* of index entries, for any set of files under the root including files in
\* different subdirectories that share a file name.
C21_RecordsCountChunks ==
    i_pc = "done" =>
        \A records \in persisted.documents_json :
            /\ Len(records) = Len(i_docs)
            /\ \A d \in 1..Len(i_docs) :
                  /\ records[d].filename = i_docs[d].metadata.filename
                  /\ records[d].chunk_count = Cardinality(ChunksOfDoc(d))
            /\ \A index \in persisted.index :
                  C21_Sum(records, Len(records)) = Len(index)

\* ------------------------------------------- the claims on learn_from_trade

FileNotFound == [ok |-> FALSE, error |-> "FileNotFoundError"]

\* C22: learn_from_trade raises FileNotFoundError to its caller whenever the
\* FAISS index is missing: a call that found no index.faiss ends with that
\* exception.
C22_MissingIndexRaisesFileNotFound ==
    \A c \in Callers :
        (l_pc[c] = "done" /\ l_docs[c].stage = "no_index") => l_result[c] = FileNotFound

\* ---------------------------------------- the claims on the transaction sync

\* The (user_id, contract_id) pairs of the first n items of a batch.
C23_Pairs(items, n) ==
    {<<UserIdOf(items[k]), items[k].contract_id>> : k \in 1..n}

\* The last item of the batch for a pair.
C23_Last(items, pair) ==
    LET ks == {k \in 1..Len(items) :
                  <<UserIdOf(items[k]), items[k].contract_id>> = pair}
    IN  items[CHOOSE k \in ks : \A j \in ks : j <= k]

\* C23: sync_transactions upserts by (user_id, contract_id): a request whose
\* items all name a user succeeds (201), and the store then holds exactly one
\* row per pair of the batch, with the figures of the last item for that pair;
\* and the store never holds two rows with the same pair.
C23_UpsertByPair ==
    /\ UqUserContract(transactions)
    /\ (t_pc = "done" /\ t_response.status # 400) =>
          /\ t_response.status = 201
          /\ \A pair \in C23_Pairs(t_items, Len(t_items)) :
                \E k \in 1..Len(transactions) :
                    /\ transactions[k].user_id = pair[1]
                    /\ transactions[k].contract_id = pair[2]
                    /\ transactions[k].profit = C23_Last(t_items, pair).profit

\* C24: the vector index is loaded from disk at most once per process: when
\* several first queries call _get_vectorstore concurrently the load runs once,
\* every caller is given the same store object, the one the cache holds, and
\* every later query reuses it.
C24_LoadedAtMostOnce ==
    /\ vs_loads <= 1
    /\ \A c \in Callers : l_store[c] # 0 => l_store[c] = vs_store

\* ------------------------------------------------ the claims on hot reload

\* C25: a build_system_prompt call that runs while reload_sections is called
\* composes its whole output from one snapshot of the section library, the one
\* PROMPT_SECTIONS named when the call began, never a mix; and a reload leaves
\* the dict the call holds as it was.
C25_BuildReadsOneSnapshot ==
    /\ b_pc # "idle" => b_s = b_start
    /\ b_pc = "done" => b_result = BuildSystemPrompt(b_start, b_args).text

\* A call during which the library was replaced by another one, and whose output
\* has blocks read before the reload and after it.
C25_Witness ==
    /\ b_pc = "done"
    /\ b_reloads > 0
    /\ PROMPT_SECTIONS # b_start
    /\ Len(b_parts) >= 3

\* ------------------------------------------- the claims on the registry lock

\* The positions at which a handler is inside a `with _jobs_lock:` block.
C26_Locked == {"cleanup_locked", "create_locked"}

\* The positions at which a handler waits for the lock.
C26_Waiting == {"cleanup_acquire", "create_acquire"}

\* The positions of a stream's retrieval, generation and token delivery.
C26_Streaming == {"s_start", "s_generate"}

\* C26: the registry lock is held only across the dictionary operations (sweep,
\* insert; lookup with mark-consumed is over within its step), its holder can
\* always go on to release it, and it is never held by a handler whose stream is
\* retrieving, generating or delivering tokens; so a handler that waits for the
\* lock can take it unless another handler is inside one of those short blocks,
\* and whatever the streams in progress, a request can start on an idle handler.
C26_LockOnlyAcrossDictOperations ==
    /\ _jobs_lock \in {0} \cup Handlers
    /\ \A h \in Handlers :
        /\ _jobs_lock = h <=> pc[h] \in C26_Locked
        /\ pc[h] \in C26_Streaming => _jobs_lock # h
        /\ _jobs_lock = h => ENABLED (CleanupSweep(h) \/ CreateJobInsert(h))
        /\ pc[h] = "cleanup_acquire" =>
              \/ ENABLED CleanupAcquire(h)
              \/ \E g \in Handlers \ {h} : pc[g] \in C26_Locked
        /\ pc[h] = "create_acquire" =>
              \/ ENABLED CreateJobAcquire(h)
              \/ \E g \in Handlers \ {h} : pc[g] \in C26_Locked
        /\ (Accepts(h) /\ streams < MaxStreams
               /\ \A g \in Handlers : pc[g] \notin C26_Locked) => ENABLED Stream(h)

\* A stream that has delivered a token and is not over, while another handler
\* is inside the insert's block.
C26_Witness ==
    \E g, h \in Handlers :
        /\ pc[g] = "s_generate"
        /\ Len(h_tokens[g]) >= 1
        /\ pc[h] = "create_locked"
        /\ _jobs_lock = h

\* ---------------------------------------------- the claims on POST /query

\* The step of handler h that inserts its job and returns from submit_query.
C27_ReturnStep(h) == pc[h] = "create_locked" /\ pc'[h] = "submit_done"

\* C27: every POST /query runs the expiry sweep before it inserts its own job,
\* so that at the insert the registry holds no job that had expired when the
\* call began; and it does no generation work: when the call returns, the job
\* it created is in the registry, pending (consumed = false), the handler has
\* called no pipeline function, and nothing was consumed or loaded by the step.
C27_SubmitSweepsThenInsertsPending ==
    [][\A h \in Handlers : C27_ReturnStep(h) =>
          /\ ExpiredKeys(_jobs, h_now[h]) = {}
          /\ h_job_id[h] \in DOMAIN _jobs'
          /\ _jobs'[h_job_id[h]] = NewJob(h_req[h], clock)
          /\ ~_jobs'[h_job_id[h]].consumed
          /\ response'[h].status = 200 /\ response'[h].job_id = h_job_id[h]
          /\ h_call[h] = NoCall /\ h_call'[h] = NoCall
          /\ h_docs'[h] = NoDocs /\ h_tokens'[h] = <<>> /\ h_events'[h] = <<>>
          /\ consumes' = consumes
          /\ vs_loads' = vs_loads]_vars

\* A POST /query has returned, its job is pending in the registry, and the sweep
\* it ran first removed the job an earlier call had issued.
C27_Witness ==
    \E h \in Handlers :
        /\ pc[h] = "submit_done"
        /\ response[h].status = 200
        /\ response[h].job_id \in DOMAIN _jobs
        /\ ~_jobs[response[h].job_id].consumed
        /\ Len(issued) = 2
        /\ issued[1].job_id \notin DOMAIN _jobs

\* ------------------------------------ the claims on what a stream leaves alone

\* The step of handler h that runs stream() up to its response.
C28_StreamCall(h) == Stream(h)

\* A step of handler h's generator: retrieval, the end, a failure.
C28_GeneratorStep(h) ==
    StreamStart(h) \/ StreamEnd(h) \/ StreamGenerationFails(h)

\* The step of handler h that runs query_sync.
C28_SyncCall(h) == QuerySync(h)

\* C28: GET /stream/{job_id}, whether it is answered 200 or 410 and however its
\* generation ends, and POST /query/sync never add or delete a registry entry;
\* a stream call that is answered 200 sets consumed on the requested job and
\* changes nothing else, and every other step of the two leaves _jobs as it was.
C28_StreamAndSyncLeaveRegistry ==
    [][\A h \in Handlers :
          /\ C28_StreamCall(h) =>
                /\ DOMAIN _jobs' = DOMAIN _jobs
                /\ IF response'[h].status = 200
                   THEN /\ h_job_id'[h] \in DOMAIN _jobs
                        /\ _jobs' = [_jobs EXCEPT ![h_job_id'[h]].consumed = TRUE]
                   ELSE _jobs' = _jobs
          /\ C28_GeneratorStep(h) => _jobs' = _jobs
          /\ C28_SyncCall(h) => _jobs' = _jobs]_vars

\* A stream was consumed and its generation failed, a sync call was made, and
\* the registry holds the consumed job and another that is still pending.
C28_Witness ==
    /\ \E k \in DOMAIN _jobs : _jobs[k].consumed
    /\ \E k \in DOMAIN _jobs : ~_jobs[k].consumed
    /\ \E h \in Handlers : pc[h] = "stream_done" /\ h_error[h] = "UpstreamError"
    /\ \E h \in Handlers : pc[h] = "sync_done"
    /\ rejections # {}

\* ------------------------------------------ the claims on template variables

\* C29: for every combination of overrides the system template that
\* build_system_prompt produces is a valid template whose only variable is the
\* library's own format_instructions: braces in extra_rules, in
\* extra_instructions and in the examples' question and context texts add none.
C29_OverridesAddNoTemplateVariable ==
    p_result # None =>
        /\ TemplateVariables(p_result.text).ok
        /\ TemplateVariables(p_result.text).variables \subseteq {"format_instructions"}

\* ------------------------------------------- the claims on the cached index

\* C30: a missing-index failure is never cached: a query that finds no index
\* leaves the cache empty, and once an ingestion run has persisted an index the
\* next query of the same process loads it (one load) and no longer takes the
\* missing-index short circuit to the default answer, nor does any query after.
C30_MissingIndexNotCached ==
    [][\A h \in Handlers : QuerySync(h) =>
          /\ vs_cached' <=> vs_store' # 0
          /\ (~index_on_disk /\ vs_store = 0) =>
                /\ h_docs'[h].stage = "no_index"
                /\ vs_store' = 0
                /\ vs_loads' = vs_loads
          /\ (index_on_disk /\ vs_store = 0) =>
                /\ h_docs'[h].stage # "no_index"
                /\ vs_store' # 0
                /\ vs_loads' = vs_loads + 1
          /\ vs_store # 0 =>
                /\ h_docs'[h].stage # "no_index"
                /\ vs_store' = vs_store
                /\ vs_loads' = vs_loads]_vars

\* One query found no index and failed, an ingestion run persisted one, and a
\* later query of the same process loaded it and retrieved chunks.
C30_Witness ==
    \E g, h \in Handlers :
        /\ pc[g] = "sync_done" /\ h_docs[g].stage = "no_index"
        /\ pc[h] = "sync_done" /\ h_docs[h].stage = "retrieved"
        /\ index_on_disk
        /\ vs_loads = 1
        /\ persisted = PersistedGeneration

====
